---- MODULE Spec2Model ----
(***************************************************************************)
(* Model of the proximity notifier of bantay-pinoy-alert:                  *)
(* src/src/hooks/useHazardNotifications.tsx.  One hook instance (one       *)
(* session) is modelled: its props, its processedHazards ref, the realtime *)
(* channel its effect holds, and the toasts it has shown.                  *)
(***************************************************************************)
EXTENDS Integers, FiniteSets, Sequences, TLC

(* ------------------------------ bounds --------------------------------- *)
\* a handler is not delivered a further event once one counter of shown
\* toasts has reached this cap (the code itself has no such limit)
MaxToasts == 2

(* ----------------------------- constants ------------------------------- *)
NOTIFICATION_RADIUS_KM == 5

\* absent id or status of a payload (undefined)
Null == "null"
\* absent location: a null currentLocation, a payload without coordinates
NoCoord == [absent |-> TRUE]
\* the result of arithmetic on an absent coordinate (no distance is negative)
NaN == -1

(* --------------------------- coordinates ------------------------------- *)
\* A coordinate is [lat, lon] in units of 1e-4 degree.
Coord(lat, lon) == [lat |-> lat, lon |-> lon]

VIGAN_CENTER == Coord(175747, 1203869)
\* a second user position, about 50 km north of Vigan
UserNorth == Coord(180247, 1203869)
\* hazard positions: 0.03 km from Vigan, and 0.03 km from UserNorth (50 km
\* from Vigan)
HazardNearVigan == Coord(175750, 1203870)
HazardNearNorth == Coord(180250, 1203870)

UserLocations == {VIGAN_CENTER, UserNorth}
HazardCoords == {HazardNearVigan, HazardNearNorth}
HazardIds == {"h1", "h2"}
Statuses == {"pending", "verified", "fixed"}

\* points on the meridian of Vigan, offset north in units of 1e-4 degree:
\* 45 is 500 m, 90 is 1000 m, 135 is 1501 m, 180 is 2001 m, 225 is 2501 m
PointAt(offset) == Coord(VIGAN_CENTER.lat + offset, VIGAN_CENTER.lon)

\* coordinates of the paths scored; the coordinates between the evaluated
\* ones are RouteFiller
RoutePoints == {PointAt(0), PointAt(225)}
RouteFiller == PointAt(45)
\* coordinates of the hazards scored
ScoredCoords == {PointAt(0), PointAt(45), PointAt(135), PointAt(225)}

\* the ids of evacuationRouteWaypoints
RouteIds == {"route-a", "route-b", "route-c"}

\* evacuationRouteWaypoints[..].waypoints[1]
RouteEnd(r) ==
    CASE r = "route-a" -> Coord(175920, 1203890)
      [] r = "route-b" -> Coord(175741, 1203868)
      [] r = "route-c" -> Coord(175600, 1203810)

\* positions of ALL_SAFE_ZONES: Vigan Cathedral, Vigan Sports Complex and
\* Bantay Church (35 m, 653 m and 1937 m from VIGAN_CENTER)
ZonePositions ==
    {Coord(175750, 1203870), Coord(175780, 1203920), Coord(175920, 1203890)}

\* every coordinate of the model
KnownPoints ==
    UserLocations \cup HazardCoords \cup RoutePoints \cup {RouteFiller}
        \cup ScoredCoords \cup {RouteEnd(r) : r \in RouteIds}
        \cup ZonePositions

(* ------------------------- GeoMetric (4.1) ----------------------------- *)
Abs(x) == IF x < 0 THEN -x ELSE x

RECURSIVE SqrtSearch(_, _, _)
SqrtSearch(n, lo, hi) ==
    IF lo >= hi THEN lo
    ELSE LET mid == (lo + hi + 1) \div 2
         IN  IF mid * mid <= n THEN SqrtSearch(n, mid, hi)
                               ELSE SqrtSearch(n, lo, mid - 1)

\* floor of the square root, n in 0 .. 2^31-1
ISqrt(n) == SqrtSearch(n, 0, 46340)

\* cosine of a latitude given in 1e-4 degree, in thousandths
\* (1 - x^2/2 + x^4/24 - x^6/720, x in radians)
CosMilli(lat) ==
    LET xmr == ((Abs(lat) \div 10) * 17453) \div 1000000
        q   == (xmr * xmr) \div 1000
    IN  1000 - (q \div 2) + ((q * q) \div 24000)
             - ((((q * q) \div 1000) * q) \div 720000)

\* mutant: the cosine of the first latitude is used twice
DistanceMetres_OneLatitude(a, b) ==
    LET dLat == Abs(a.lat - b.lat)
        dLon == Abs(a.lon - b.lon)
        dx1  == (dLon * CosMilli(a.lat)) \div 1000
        s4   == ISqrt(16 * (dLat * dLat + dx1 * dx1))
    IN  (s4 * 11119) \div 4000

\* great-circle distance in metres, Earth radius 6371 km, for points less
\* than about 100 km apart (haversine with sin(x/2) taken as x/2)
DistanceMetres(a, b) ==
    LET dLat == Abs(a.lat - b.lat)
        dLon == Abs(a.lon - b.lon)
        dx1  == (dLon * CosMilli(a.lat)) \div 1000
        dx2  == (dLon * CosMilli(b.lat)) \div 1000
        s4   == ISqrt(16 * (dLat * dLat + dx1 * dx2))
    IN  (s4 * 11119) \div 4000

\* DistanceMetres on the coordinates of the model, computed once
DistanceTable ==
    [pair \in KnownPoints \X KnownPoints |->
        DistanceMetres(pair[1], pair[2])]

\* calculateDistance(lat1, lon1, lat2, lon2): NaN when a coordinate is absent
calculateDistance(a, b) ==
    IF a = NoCoord \/ b = NoCoord THEN NaN
    ELSE IF a \in KnownPoints /\ b \in KnownPoints
         THEN DistanceTable[<<a, b>>]
         ELSE DistanceMetres(a, b)

(* ------------------------------- state --------------------------------- *)
VARIABLES
    mounted,            \* the hook instance is mounted
    currentLocation,    \* prop: a coordinate or NoCoord
    enabled,            \* prop
    processedHazards,   \* processedHazards.current
    channels,           \* subscribed channels, each the location it captured
    effectChannel,      \* the channel the pending cleanup closes over, or NoCoord
    newToasts,          \* per hazard id: "New hazard reported" toasts shown
    resolvedToasts,     \* per hazard id: "Hazard resolved" toasts shown
    firstCreate,        \* history, per hazard id: what the first INSERT event
                        \* a callback ran for looked like
    firstKind,          \* history, per hazard id: kind of the first toast
    last                \* history: the last step taken and its inputs

\* one call of calculateRouteSafety (src/unnamed/part_002)
VARIABLES
    routeCoordinates,   \* argument: the path, a sequence of coordinates
    hazards,            \* argument: the hazard reports
    safetyScore,        \* the value returned
    scorePc             \* "idle", "called" or "returned"

\* the safety scores of MapView (src/unnamed/part_002)
VARIABLES
    viewLocation,       \* state currentLocation of MapView, or NoCoord
    hazardReports,      \* state hazardReports
    lengthDep,          \* hazardReports.length at the last run of the effect
    routeSafetyScores,  \* the memoised object, per route id
    calculating,        \* calls of calculateSafety awaiting fetchRoute in
                        \* the order they started, each
                        \* the hazardReports its closure captured
    latestStarted       \* history: whether calculateSafety was ever called,
                        \* and the hazardReports its last call captured

\* one evaluation of nearbySafeZones (src/unnamed/part_002)
VARIABLES
    safeZones,          \* the catalog, a sequence of zones
    zoneLocation,       \* currentLocation, or NoCoord
    nearestZones,       \* the value of the memo
    zonePc              \* "idle", "called" or "returned"

\* one call of fetchRoute (src/unnamed/part_002)
VARIABLES
    fetchWaypoints,     \* argument: the waypoints
    fetchResponse,      \* what the routing service does with the request
    fetchResult,        \* how the promise settles, and its value
    fetchPc             \* "idle", "called" or "settled"

\* the location effect of MapView (src/unnamed/part_002 and
\* src/src/components/MapView.tsx)
VARIABLES
    geoSupported,       \* navigator.geolocation exists
    guardedCopy,        \* the MapView that is built: TRUE for part_002
                        \* (with the hasInitialized ref), FALSE for
                        \* src/src/components/MapView.tsx (without it)
    mountId,            \* which mount of MapView this is
    hasInitialized,     \* hasInitialized.current
    effectRuns,         \* runs of the location effect in this mount
    geoRequests,        \* calls of getCurrentPosition in this mount
    geoInFlight,        \* the requests that have not called back yet,
                        \* each with the mount that made it
    geoAnswered,        \* a callback of this mount's request has run, or
                        \* the effect found no provider
    geoLocation,        \* state currentLocation, or NoCoord
    locationError,      \* state locationError, or Null
    geoLast             \* history: the last step taken

\* the hazard_reports table and the admin panels (src/unnamed/part_003)
VARIABLES
    dbStatus,           \* per report id: the status column of its row
    dbFixedAt,          \* per report id: the fixed_at column, 0 for null
    adminClock,         \* the time of the last write
    adminReports,       \* per moderator: state reports (the status loaded)
    adminLoading,       \* per moderator: state loading
    adminLoad,          \* per moderator: the select of loadReports in flight
    selectedReport,     \* per moderator: state selectedReport, or Null
    adminImage,         \* per moderator: state fixImage, or Null
    adminSubmitting,    \* per moderator: state submitting
    adminFix,           \* per moderator: the call of handleMarkAsFixed in
                        \* flight and what it captured
    adminAuth,          \* per moderator, checkAdminAndLoadReports of the
                        \* panel: "session" (getSession awaited), "role"
                        \* (the role select awaited), "done", "signed out"
                        \* or "denied"
    adminOrphans        \* calls of handleMarkAsFixed that run on after
                        \* their panel was left

\* two sessions, each with its own instance of useHazardNotifications
VARIABLES
    sessionLocation,    \* per session: the location its channel captured
    sessionSets,        \* per session: processedHazards.current
    sessionToasts,      \* per session and hazard id: "New hazard" toasts
    sessionDelivered,   \* history, per session: ids of the INSERT events
                        \* its callback ran for
    sessionLast         \* history: the last step taken

\* calls of calculateDistance on two points (lib/geolocation)
VARIABLES
    distFrom,           \* the first point
    distTo,             \* the second point
    distThere,          \* calculateDistance(from, to)
    distBack,           \* calculateDistance(to, from)
    distSelf,           \* calculateDistance(from, from)
    distPc              \* "idle", "called" or "returned"

\* the toast of the INSERT callback (useHazardNotifications.tsx)
VARIABLES
    toastHazard,        \* payload.new: name, hazard_type, description
    toastDistance,      \* the distance computed, in metres
    toastShown,         \* the arguments of toast.warning, or Null
    toastPc             \* "idle", "called" or "shown"

\* the route list and the route popups of MapView (src/unnamed/part_002)
VARIABLES
    scoreObject,        \* the routeSafetyScores object MapView and
                        \* LeafletMap read, per route id
    scoreStores,        \* the times calculateSafety has assigned to it
    routeList,          \* what the route list shows per route id as of the
                        \* last render of MapView
    routePopups,        \* per route id: what the popup of its polyline
                        \* shows
    mapOnScreen,        \* the Leaflet map in the container: "none", "current"
                        \* (of the last run of the map effect) or "late"
                        \* (created by a run after its cleanup)
    mapImporting,       \* the last run of the map effect awaits its imports
    staleImports        \* runs that were cleaned up and still await theirs

\* fetchHazardReports and the realtime effect of MapView
\* (src/unnamed/part_002)
VARIABLES
    tableVersion,       \* hazard_reports on the server: number of changes
    fetchSeq,           \* calls of fetchHazardReports so far
    fetchStage,         \* per call: "none", "sent", "rows", "failed",
                        \* "done" or "thrown"
    fetchData,          \* per call: the version of the rows its query read
    heldReports,        \* hazardReports state: the version of the rows held
    reportsLoading      \* loading state

\* the map effect of LeafletMap (src/unnamed/part_002)
VARIABLES
    mapEffectRun,       \* runs of the effect so far
    containerMounted,   \* the div with id "map" is in the document
    runStage,           \* per run, initMap: "none", "importing", "routing",
                        \* "loaded" or "failed"
    runCleaned,         \* per run: its cleanup has run
    runReports,         \* per run: the length of the hazardReports it captured
    mapInstance,        \* per run: "null", "live" or "removed"
    routePending,       \* per run: the routes whose fetchRoute it awaits
    routeLayers,        \* per run: the routes whose polyline is on its map
    hazardMarkers,      \* hazardMarkers.current: the runs whose markers it holds
    createdLate         \* history: <<run, kind>> created after the cleanup

\* the fix form of AdminPanel and handleMarkAsFixed (src/unnamed/part_003)
VARIABLES
    fixRows,            \* hazard_reports, per report id: status, fixed_by,
                        \* fix_image_url, fix_notes
    fixList,            \* reports: per report id the status the list
                        \* shows, "none" for a report that is not in it
    fixLoading,         \* loading
    fixLoad,            \* the select of loadReports in flight
    fixSelected,        \* selectedReport: a report id or Null
    fixImage,           \* fixImage: a file name or Null
    fixNotes,           \* fixNotes
    fixSubmitting,      \* submitting
    fixCall,            \* the call of handleMarkAsFixed in progress: where
                        \* it awaits and what its closure and locals hold
    fixLast             \* history: how the last call ended

\* the report form and handleSubmit (src/src/components/HazardReport.tsx)
VARIABLES
    reportForm,         \* hazardType, description, location, imageFile
    reportSubmitting,   \* submitting
    reportRows,         \* the records inserted into hazard_reports
    submitLast,         \* history: how the last call of handleSubmit ended
    submitCalls,        \* history: the calls of handleSubmit that ended
    reportAnalyses,     \* the calls of analyzeImage in progress, each at
                        \* "reading" (its FileReader) or "invoking"
    reportLocating      \* getLocation: where it waits and the position
                        \* its callback holds

\* one request to the analyze-hazard function (src/unnamed/part_000)
VARIABLES
    apiRequest,         \* method, whether the body parses, imageBase64
    apiWorld,           \* the API key setting and what the AI gateway does
    apiPc,              \* where the handler is: "idle", "received", at an
                        \* await ("json", "fetch", "text", "body") or "done"
    apiResponse,        \* the Response returned, or NoResponse
    gatewayCalls        \* calls of fetch to the AI gateway

\* the objects the operations of the engine are given and make
\* (src/unnamed/part_002, src/src/hooks/useHazardNotifications.tsx)
VARIABLES
    objArrays,          \* the arrays by name: ALL_SAFE_ZONES and the arrays
                        \* that map and slice returned last
    objLocation,        \* state currentLocation, or NoCoord
    objReports,         \* state hazardReports
    objLengthDep,       \* hazardReports.length at the last run of the
                        \* score effect
    objCalls,           \* calls of calculateSafety in progress: the
                        \* hazardReports each one captured
    objScores,          \* routeSafetyScores, the memo object of MapView
    objProcessed,       \* processedHazards.current
    objPayload,         \* payload.old and payload.new of the last event,
                        \* as its callback left them
    objLast             \* history: the last step and the payload as the
                        \* change feed delivered it

notifierVars == <<mounted, currentLocation, enabled, processedHazards,
                  channels, effectChannel, newToasts, resolvedToasts,
                  firstCreate, firstKind, last>>

scorerVars == <<routeCoordinates, hazards, safetyScore, scorePc>>

viewVars == <<viewLocation, hazardReports, lengthDep, routeSafetyScores,
              calculating, latestStarted>>

rankerVars == <<safeZones, zoneLocation, nearestZones, zonePc>>

fetchVars == <<fetchWaypoints, fetchResponse, fetchResult, fetchPc>>

adminVars == <<dbStatus, dbFixedAt, adminClock, adminReports, adminLoading,
               adminLoad, selectedReport, adminImage, adminSubmitting,
               adminFix, adminAuth, adminOrphans>>

sessionVars == <<sessionLocation, sessionSets, sessionToasts,
                 sessionDelivered, sessionLast>>

distVars == <<distFrom, distTo, distThere, distBack, distSelf, distPc>>

toastVars == <<toastHazard, toastDistance, toastShown, toastPc>>

displayVars == <<scoreObject, scoreStores, routeList, routePopups,
                 mapOnScreen, mapImporting, staleImports>>

reportVars == <<tableVersion, fetchSeq, fetchStage, fetchData, heldReports,
                reportsLoading>>

mapVars == <<mapEffectRun, containerMounted, runStage, runCleaned,
             runReports, mapInstance, routePending, routeLayers,
             hazardMarkers, createdLate>>

fixVars == <<fixRows, fixList, fixLoading, fixLoad, fixSelected, fixImage,
             fixNotes, fixSubmitting, fixCall, fixLast>>

submitVars == <<reportForm, reportSubmitting, reportRows, submitLast,
                submitCalls, reportAnalyses, reportLocating>>

apiVars == <<apiRequest, apiWorld, apiPc, apiResponse, gatewayCalls>>

objVars == <<objArrays, objLocation, objReports, objLengthDep, objCalls,
             objScores, objProcessed, objPayload, objLast>>

geoVars == <<geoSupported, guardedCopy, mountId, hasInitialized, effectRuns, geoRequests,
             geoInFlight, geoAnswered, geoLocation, locationError, geoLast>>

\* the notifier hook, the scorer, the score effect and the ranker
baseVars == <<notifierVars, scorerVars, viewVars, rankerVars>>

\* the state of the other parts of the application
extraVars == <<fetchVars, geoVars, adminVars, sessionVars, distVars, toastVars, displayVars, reportVars, mapVars, fixVars, submitVars, apiVars, objVars>>

\* what fetchRoute never touches
outsideFetch == <<baseVars, geoVars, adminVars, sessionVars, distVars, toastVars, displayVars, reportVars, mapVars, fixVars, submitVars, apiVars, objVars>>

\* what the location effect never touches
outsideLocate == <<baseVars, fetchVars, adminVars, sessionVars, distVars, toastVars, displayVars, reportVars, mapVars, fixVars, submitVars, apiVars, objVars>>

\* what the steps on the objects of the engine leave alone
outsideObjects == <<baseVars, fetchVars, geoVars, adminVars, sessionVars, distVars, toastVars, displayVars, reportVars, mapVars, fixVars, submitVars, apiVars>>

\* what the analyze-hazard function never touches
outsideApi == <<baseVars, fetchVars, geoVars, adminVars, sessionVars, distVars, toastVars, displayVars, reportVars, mapVars, fixVars, submitVars, objVars>>

\* what the report form never touches
outsideSubmit == <<baseVars, fetchVars, geoVars, adminVars, sessionVars, distVars, toastVars, displayVars, reportVars, mapVars, fixVars, apiVars, objVars>>

\* what the fix form of the admin panel never touches
outsideFix == <<baseVars, fetchVars, geoVars, adminVars, sessionVars, distVars, toastVars, displayVars, reportVars, mapVars, submitVars, apiVars, objVars>>

\* what the map effect of LeafletMap never touches
outsideMap == <<baseVars, fetchVars, geoVars, adminVars, sessionVars, distVars, toastVars, displayVars, reportVars, fixVars, submitVars, apiVars, objVars>>

\* what fetchHazardReports never touches
outsideReports == <<baseVars, fetchVars, geoVars, adminVars, sessionVars, distVars, toastVars, displayVars, mapVars, fixVars, submitVars, apiVars, objVars>>

\* what rendering the routes never touches
outsideDisplay == <<baseVars, fetchVars, geoVars, adminVars, sessionVars, distVars, toastVars, reportVars, mapVars, fixVars, submitVars, apiVars, objVars>>

\* what the toast of the INSERT callback never touches
outsideToast == <<baseVars, fetchVars, geoVars, adminVars, sessionVars, distVars, displayVars, reportVars, mapVars, fixVars, submitVars, apiVars, objVars>>

\* what calculateDistance never touches
outsideDist == <<baseVars, fetchVars, geoVars, adminVars, sessionVars, toastVars, displayVars, reportVars, mapVars, fixVars, submitVars, apiVars, objVars>>

\* what the hook instances of the two sessions never touch
outsideSessions == <<baseVars, fetchVars, geoVars, adminVars, distVars, toastVars, displayVars, reportVars, mapVars, fixVars, submitVars, apiVars, objVars>>

\* what the admin panel never touches
outsideAdmin == <<baseVars, fetchVars, geoVars, sessionVars, distVars, toastVars, displayVars, reportVars, mapVars, fixVars, submitVars, apiVars, objVars>>

\* what the notifier hook never touches
outsideNotifier == <<scorerVars, viewVars, rankerVars, extraVars>>

\* what a call of calculateRouteSafety never touches
outsideScorer == <<notifierVars, viewVars, rankerVars, extraVars>>

\* what the score effect of MapView never touches
outsideView == <<notifierVars, scorerVars, rankerVars, extraVars>>

\* what nearbySafeZones never touches
outsideRanker == <<notifierVars, scorerVars, viewVars, extraVars>>

vars == <<notifierVars, scorerVars, viewVars, rankerVars, extraVars>>

NoStep == [op |-> "init", id |-> Null, coords |-> NoCoord, old |-> Null,
           new |-> Null, ch |-> NoCoord, outcome |-> "none"]

\* payload.new of an INSERT or UPDATE event, payload.old of an UPDATE event
\* (the fields the callbacks branch on)
NewRecord(id, status, coords) ==
    [id |-> id, status |-> status, coords |-> coords]
OldRecord(status) == [status |-> status]

(* --------------------- HazardEventDeduplicator (4.4) ------------------- *)
\* mutant: one set keyed by the id alone serves both kinds of event
AlreadyProcessed_SharedKey(processed, id) ==
    id \in processed \/ resolvedToasts[id] > 0

\* processedHazards.current.has(newHazard.id)
AlreadyProcessed(processed, id) == id \in processed

\* mutant: the id is never recorded
MarkProcessed_Forgets(processed, id) == processed

\* processedHazards.current.add(newHazard.id)
MarkProcessed(processed, id) == processed \cup {id}

(* ------------------------ ProximityNotifier (4.5) ---------------------- *)
\* mutant: no distance test
WithinRadius_NoGate(distance) == distance # NaN

\* distance <= NOTIFICATION_RADIUS_KM; every comparison with NaN is false
WithinRadius(distance) ==
    distance # NaN /\ distance <= NOTIFICATION_RADIUS_KM * 1000

\* mutant: the previous status is not looked at
IsResolution_AnyFixed(oldHazard, updatedHazard) ==
    updatedHazard.status = "fixed"

\* oldHazard.status !== 'fixed' && updatedHazard.status === 'fixed'
\* (the status is Null when the payload carries no previous status)
IsResolution(oldHazard, updatedHazard) ==
    oldHazard.status # "fixed" /\ updatedHazard.status = "fixed"

\* the INSERT callback on one payload, for the user location its channel
\* captured: "dup" returns at the has() check, "shown" toasts, "dropped"
\* fails the distance test
InsertOutcome(processed, userLoc, newHazard) ==
    IF AlreadyProcessed(processed, newHazard.id) THEN "dup"
    ELSE IF WithinRadius(calculateDistance(userLoc, newHazard.coords))
         THEN "shown"
         ELSE "dropped"

\* the set the INSERT callback leaves in processedHazards.current
InsertProcessed(processed, newHazard) ==
    IF AlreadyProcessed(processed, newHazard.id) THEN processed
    ELSE MarkProcessed(processed, newHazard.id)

\* mutant: a resolution is shown only for an id whose creation was shown
UpdateOutcome_NeedsCreated(userLoc, oldHazard, updatedHazard) ==
    IF ~IsResolution(oldHazard, updatedHazard) THEN "ignored"
    ELSE IF newToasts[updatedHazard.id] = 0 THEN "ignored"
    ELSE IF WithinRadius(calculateDistance(userLoc, updatedHazard.coords))
         THEN "shown"
         ELSE "dropped"

\* the UPDATE callback on one payload: "ignored" is not a change to fixed
UpdateOutcome(userLoc, oldHazard, updatedHazard) ==
    IF ~IsResolution(oldHazard, updatedHazard) THEN "ignored"
    ELSE IF WithinRadius(calculateDistance(userLoc, updatedHazard.coords))
         THEN "shown"
         ELSE "dropped"

\* if (!currentLocation || !enabled) return;
EffectSubscribes(loc, en) == loc # NoCoord /\ en

\* mutant: the cleanup leaves the channel subscribed
RemoveChannel_Leaks(chs, ch) == chs

\* supabase.removeChannel(channel), run by the cleanup of an effect that
\* subscribed
RemoveChannel(chs, ch) == IF ch = NoCoord THEN chs ELSE chs \ {ch}

\* mutant: the set is created by the effect, a new one on every run
RefAcrossEffect_Reset(processed) == {}

\* useRef: processedHazards.current is the same set on every render and
\* every run of the effect
RefAcrossEffect(processed) == processed

\* .channel('hazard-notifications').on(...).on(...).subscribe()
Subscribe(chs, loc) == chs \cup {loc}

(* --------------------------- history helpers --------------------------- *)
\* how a payload lies to a user location, from the inputs alone
Placement(userLoc, coords) ==
    IF coords = NoCoord THEN "malformed"
    ELSE IF DistanceMetres(userLoc, coords) <= NOTIFICATION_RADIUS_KM * 1000
         THEN "near"
         ELSE "far"

\* no call of the scorer is modelled
ScorerIdle ==
    /\ routeCoordinates = <<>>
    /\ hazards = <<>>
    /\ safetyScore = 100
    /\ scorePc = "idle"

\* MapView after its first render: no location, no report, every score at
\* its default; the effect ran for length 0 and returned at once
ViewStart ==
    /\ viewLocation = NoCoord
    /\ hazardReports = <<>>
    /\ lengthDep = 0
    /\ routeSafetyScores = [r \in RouteIds |-> 100]
    /\ calculating = <<>>
    /\ latestStarted = [started |-> FALSE, reports |-> <<>>]

\* no evaluation of nearbySafeZones is modelled
RankerIdle ==
    /\ safeZones = <<>>
    /\ zoneLocation = NoCoord
    /\ nearestZones = <<>>
    /\ zonePc = "idle"

\* no call of fetchRoute is modelled
FetchIdle ==
    /\ fetchWaypoints = <<>>
    /\ fetchResponse = Null
    /\ fetchResult = Null
    /\ fetchPc = "idle"

\* MapView rendered for the first time, its effects not run yet
GeoMounted ==
    /\ mountId = 1
    /\ hasInitialized = FALSE
    /\ effectRuns = 0
    /\ geoRequests = 0
    /\ geoInFlight = <<>>
    /\ geoAnswered = FALSE
    /\ geoLocation = NoCoord
    /\ locationError = Null
    /\ geoLast = "mount"

\* the location effect is not modelled: a browser with geolocation
GeoIdle ==
    /\ geoSupported = TRUE
    /\ guardedCopy = TRUE
    /\ GeoMounted

ReportIds == {"r1", "r2"}
Moderators == {"m1", "m2"}

\* calls of fetchHazardReports in one mount: the call on mount and one per
\* event of the change feed
MaxFetches == 3
FetchCalls == 1..MaxFetches

\* runs of the map effect of LeafletMap in one mount
MaxMapRuns == 3
MapRuns == 1..MaxMapRuns

\* useState<HazardReport[]>([]): no report in the list
NoReports == [r \in ReportIds |-> "none"]

\* no select of loadReports in flight; one sent and not served yet
NoLoad == [stage |-> "none", error |-> FALSE, data |-> NoReports]
LoadSent == [stage |-> "sent", error |-> FALSE, data |-> NoReports]

\* no call of handleMarkAsFixed in flight
NoFix == [stage |-> "none", report |-> Null, at |-> 0, error |-> FALSE]

\* the table holds the existing reports, none of them moderated yet
\* (status TEXT NOT NULL DEFAULT 'pending', fixed_at null); two admin
\* panels just mounted: the initial state of the component,
\* checkAdminAndLoadReports awaits getSession
AdminStart ==
    /\ dbStatus = [r \in ReportIds |-> "pending"]
    /\ dbFixedAt = [r \in ReportIds |-> 0]
    /\ adminClock = 0
    /\ adminReports = [m \in Moderators |-> NoReports]
    /\ adminLoading = [m \in Moderators |-> TRUE]
    /\ adminLoad = [m \in Moderators |-> NoLoad]
    /\ selectedReport = [m \in Moderators |-> Null]
    /\ adminImage = [m \in Moderators |-> Null]
    /\ adminSubmitting = [m \in Moderators |-> FALSE]
    /\ adminFix = [m \in Moderators |-> NoFix]
    /\ adminAuth = [m \in Moderators |-> "session"]
    /\ adminOrphans = <<>>

Sessions == {"A", "B"}

\* two sessions that have seen no event; sessionLocation is the location
\* of their users
SessionsStart ==
    /\ sessionSets = [s \in Sessions |-> {}]
    /\ sessionToasts = [s \in Sessions |-> [h \in HazardIds |-> 0]]
    /\ sessionDelivered = [s \in Sessions |-> {}]
    /\ sessionLast = [session |-> Null, id |-> Null, outcome |-> "none"]

\* both users at the centre of Vigan
SessionsIdle ==
    /\ sessionLocation = [s \in Sessions |-> VIGAN_CENTER]
    /\ SessionsStart

\* no call of calculateDistance is modelled
DistIdle ==
    /\ distFrom = NoCoord
    /\ distTo = NoCoord
    /\ distThere = NaN
    /\ distBack = NaN
    /\ distSelf = NaN
    /\ distPc = "idle"

\* no toast is modelled
ToastIdle ==
    /\ toastHazard = Null
    /\ toastDistance = 0
    /\ toastShown = Null
    /\ toastPc = "idle"

\* a list entry before the first render, a popup before its polyline
NoEntry == [label |-> NaN, width |-> NaN, band |-> "none", safest |-> FALSE]
NoPopup == [popup |-> NaN, text |-> "none"]

\* MapView before its first render: the memo holds the default score of
\* every route (scores[route.id] = 100)
DisplayIdle ==
    /\ scoreObject = [r \in RouteIds |-> 100]
    /\ scoreStores = 0
    /\ routeList = [r \in RouteIds |-> NoEntry]
    /\ routePopups = [r \in RouteIds |-> NoPopup]
    /\ mapOnScreen = "none"
    /\ mapImporting = FALSE
    /\ staleImports = 0

\* MapView is not mounted for fetchHazardReports
ReportsIdle ==
    /\ tableVersion = 0
    /\ fetchSeq = 0
    /\ fetchStage = [i \in FetchCalls |-> "none"]
    /\ fetchData = [i \in FetchCalls |-> 0]
    /\ heldReports = 0
    /\ reportsLoading = TRUE

\* LeafletMap is rendered, its effect has not run
MapIdle ==
    /\ mapEffectRun = 0
    /\ containerMounted = TRUE
    /\ runStage = [k \in MapRuns |-> "none"]
    /\ runCleaned = [k \in MapRuns |-> FALSE]
    /\ runReports = [k \in MapRuns |-> 0]
    /\ mapInstance = [k \in MapRuns |-> "null"]
    /\ routePending = [k \in MapRuns |-> {}]
    /\ routeLayers = [k \in MapRuns |-> {}]
    /\ hazardMarkers = {}
    /\ createdLate = {}

\* the row of a report nobody fixed
PendingRow ==
    [status |-> "pending", fixed_by |-> Null, fix_image_url |-> Null,
     fix_notes |-> Null]

\* no call of handleMarkAsFixed
NoCall ==
    [pc |-> "idle", report |-> Null, image |-> Null, notes |-> "",
     user |-> Null, url |-> Null, error |-> FALSE]

\* two pending reports in the table; the admin panel was mounted and
\* called loadReports, whose select is not answered yet
FixIdle ==
    /\ fixRows = [r \in ReportIds |-> PendingRow]
    /\ fixList = NoReports
    /\ fixLoading = TRUE
    /\ fixLoad = LoadSent
    /\ fixSelected = Null
    /\ fixImage = Null
    /\ fixNotes = ""
    /\ fixSubmitting = FALSE
    /\ fixCall = NoCall
    /\ fixLast = "none"

\* a text of the form: core characters with pad white space around them
Text(core, pad) == [core |-> core, pad |-> pad]

\* the form as useState creates it and as the reset leaves it
EmptyForm ==
    [hazardType |-> Text(0, 0), description |-> Text(0, 0),
     lat |-> 0, lng |-> 0, name |-> Text(0, 0), imageFile |-> Null]

\* getLocation is not running
NotLocating == [stage |-> "idle", lat |-> 0, lng |-> 0]

\* HazardReport as it is mounted: the report form is empty
SubmitIdle ==
    /\ reportForm = EmptyForm
    /\ reportSubmitting = FALSE
    /\ reportRows = <<>>
    /\ submitLast = "none"
    /\ submitCalls = 0
    /\ reportAnalyses = <<>>
    /\ reportLocating = NotLocating

\* no Response (yet)
NoResponse == [status |-> 0, body |-> Null, contentType |-> Null]

\* no request is modelled
ApiIdle ==
    /\ apiRequest = Null
    /\ apiWorld = Null
    /\ apiPc = "idle"
    /\ apiResponse = NoResponse
    /\ gatewayCalls = 0

\* the arrays of the ranking, by the name the code gives them
ArrayNames == {"ALL_SAFE_ZONES", "zonesWithDistance", "nearbySafeZones"}

\* no event yet
NoPayload == [old |-> [status |-> Null],
              new |-> [id |-> Null, status |-> Null, coords |-> NoCoord]]

\* MapView after its first render: no location, no report, every score at
\* its default, nearbySafeZones returned [] without reading the catalog
ObjMounted ==
    /\ objLocation = NoCoord
    /\ objReports = <<>>
    /\ objLengthDep = 0
    /\ objCalls = <<>>
    /\ objScores = [r \in RouteIds |-> 100]
    /\ objProcessed = {}
    /\ objPayload = NoPayload
    /\ objLast = [op |-> "mount", payload |-> NoPayload, outcome |-> "none"]

\* the objects are not modelled: an empty catalog
ObjIdle ==
    /\ objArrays = [name \in ArrayNames |-> <<>>]
    /\ ObjMounted

\* the other parts of the application at rest
ExtraIdle ==
    /\ FetchIdle
    /\ GeoIdle
    /\ AdminStart
    /\ SessionsIdle
    /\ DistIdle
    /\ ToastIdle
    /\ DisplayIdle
    /\ ReportsIdle
    /\ MapIdle
    /\ FixIdle
    /\ SubmitIdle
    /\ ApiIdle
    /\ ObjIdle

(* ------------------------------ actions -------------------------------- *)
\* the hook after the first render of MapView: no location yet
NotifierStart ==
    /\ mounted = TRUE
    /\ currentLocation = NoCoord
    /\ enabled = TRUE
    /\ processedHazards = {}
    /\ channels = {}
    /\ effectChannel = NoCoord
    /\ newToasts = [h \in HazardIds |-> 0]
    /\ resolvedToasts = [h \in HazardIds |-> 0]
    /\ firstCreate = [h \in HazardIds |-> "none"]
    /\ firstKind = [h \in HazardIds |-> "none"]
    /\ last = NoStep

\* the notifier hook, the scorer, the score effect and the ranker at rest
BaseIdle ==
    /\ NotifierStart
    /\ ScorerIdle
    /\ ViewStart
    /\ RankerIdle

Init ==
    /\ NotifierStart
    /\ ScorerIdle
    /\ ViewStart
    /\ RankerIdle
    /\ ExtraIdle

\* The component renders the hook with new props.  When a dependency
\* changed (newRef: the location array is a new object, even with the same
\* numbers) the previous effect's cleanup runs and then the effect.
Render(loc, en, newRef) ==
    /\ mounted
    /\ LET depsChanged == \/ loc # currentLocation
                          \/ en # enabled
                          \/ (loc # NoCoord /\ newRef)
           cleaned == RemoveChannel(channels, effectChannel)
       IN  /\ depsChanged
           /\ currentLocation' = loc
           /\ enabled' = en
           /\ IF EffectSubscribes(loc, en)
              THEN /\ channels' = Subscribe(cleaned, loc)
                   /\ effectChannel' = loc
              ELSE /\ channels' = cleaned
                   /\ effectChannel' = NoCoord
           /\ last' = [NoStep EXCEPT !.op = "render", !.ch = effectChannel']
    /\ processedHazards' = RefAcrossEffect(processedHazards)
    /\ UNCHANGED <<mounted, newToasts, resolvedToasts, firstCreate,
                   firstKind, outsideNotifier>>

\* The component unmounts: the pending cleanup runs.
Unmount ==
    /\ mounted
    /\ mounted' = FALSE
    /\ channels' = RemoveChannel(channels, effectChannel)
    /\ effectChannel' = NoCoord
    /\ last' = [NoStep EXCEPT !.op = "unmount"]
    /\ UNCHANGED <<currentLocation, enabled, processedHazards, newToasts,
                   resolvedToasts, firstCreate, firstKind, outsideNotifier>>

\* The change feed emits an INSERT of hazard_reports.  A subscribed
\* channel runs the INSERT callback; with no channel nothing runs.
InsertEvent(id, coords) ==
    /\ newToasts[id] < MaxToasts
    /\ IF channels = {}
       THEN /\ last' = [NoStep EXCEPT !.op = "insert", !.id = id,
                           !.coords = coords, !.outcome = "undelivered"]
            /\ UNCHANGED <<processedHazards, newToasts, firstCreate,
                           firstKind>>
       ELSE \E ch \in channels :
            LET newHazard == NewRecord(id, "pending", coords)
                outcome == InsertOutcome(processedHazards, ch, newHazard)
            IN  /\ processedHazards' =
                      InsertProcessed(processedHazards, newHazard)
                /\ newToasts' =
                      IF outcome = "shown"
                      THEN [newToasts EXCEPT ![id] = @ + 1]
                      ELSE newToasts
                /\ firstCreate' =
                      IF firstCreate[id] = "none"
                      THEN [firstCreate EXCEPT ![id] = Placement(ch, coords)]
                      ELSE firstCreate
                /\ firstKind' =
                      IF outcome = "shown" /\ firstKind[id] = "none"
                      THEN [firstKind EXCEPT ![id] = "new"]
                      ELSE firstKind
                /\ last' = [NoStep EXCEPT !.op = "insert", !.id = id,
                               !.coords = coords, !.ch = ch,
                               !.outcome = outcome]
    /\ UNCHANGED <<mounted, currentLocation, enabled, channels,
                   effectChannel, resolvedToasts, outsideNotifier>>

\* The change feed emits an UPDATE of hazard_reports.
UpdateEvent(id, old, new, coords) ==
    /\ resolvedToasts[id] < MaxToasts
    /\ IF channels = {}
       THEN /\ last' = [NoStep EXCEPT !.op = "update", !.id = id,
                           !.coords = coords, !.old = old, !.new = new,
                           !.outcome = "undelivered"]
            /\ UNCHANGED <<resolvedToasts, firstKind>>
       ELSE \E ch \in channels :
            LET outcome == UpdateOutcome(ch, OldRecord(old),
                                         NewRecord(id, new, coords))
            IN  /\ resolvedToasts' =
                      IF outcome = "shown"
                      THEN [resolvedToasts EXCEPT ![id] = @ + 1]
                      ELSE resolvedToasts
                /\ firstKind' =
                      IF outcome = "shown" /\ firstKind[id] = "none"
                      THEN [firstKind EXCEPT ![id] = "resolved"]
                      ELSE firstKind
                /\ last' = [NoStep EXCEPT !.op = "update", !.id = id,
                               !.coords = coords, !.old = old, !.new = new,
                               !.ch = ch, !.outcome = outcome]
    /\ UNCHANGED <<mounted, currentLocation, enabled, processedHazards,
                   channels, effectChannel, newToasts, firstCreate,
                   outsideNotifier>>

Next ==
    \/ \E loc \in UserLocations \cup {NoCoord}, en \in BOOLEAN,
          newRef \in BOOLEAN : Render(loc, en, newRef)
    \/ Unmount
    \/ \E id \in HazardIds, coords \in HazardCoords \cup {NoCoord} :
          InsertEvent(id, coords)
    \/ \E id \in HazardIds, old \in Statuses \cup {Null}, new \in Statuses,
          coords \in HazardCoords \cup {NoCoord} :
          UpdateEvent(id, old, new, coords)

Spec == Init /\ [][Next]_vars

TypeOK ==
    /\ mounted \in BOOLEAN
    /\ currentLocation \in UserLocations \cup {NoCoord}
    /\ enabled \in BOOLEAN
    /\ processedHazards \subseteq HazardIds
    /\ channels \subseteq UserLocations
    /\ effectChannel \in UserLocations \cup {NoCoord}
    /\ newToasts \in [HazardIds -> 0..MaxToasts]
    /\ resolvedToasts \in [HazardIds -> 0..MaxToasts]

\* a callback ran for the event of the step that led to this state
Delivered(step) ==
    step.op \in {"insert", "update"} /\ step.outcome # "undelivered"

(* ------------------------------ claims --------------------------------- *)
\* C1: in one session at most one "new hazard" toast is shown per hazard
\* id: the dedup gate lets the first INSERT event of an id through and stops
\* every later INSERT event with that id, which shows nothing.
C1_NewToastAtMostOnce ==
    /\ [](\A h \in HazardIds : newToasts[h] <= 1)
    /\ [][ (last'.op = "insert" /\ Delivered(last'))
           => IF firstCreate[last'.id] = "none"
              THEN last'.outcome # "dup"
              ELSE last'.outcome = "dup" /\ newToasts' = newToasts ]_vars

\* an INSERT event replayed for an id whose toast was already shown
C1_Witness ==
    /\ last.op = "insert"
    /\ last.outcome = "dup"
    /\ newToasts[last.id] = 1

\* C2 (as claimed): the first resolution UPDATE of a hazard within the radius
\* shows exactly one "hazard resolved" toast, and a replay of that same
\* UPDATE event shows none.
C2_ResolvedReplayShowsNothing ==
    [][ (/\ last.op = "update" /\ last.outcome = "shown"
         /\ last'.op = "update" /\ Delivered(last')
         /\ last'.id = last.id /\ last'.old = last.old
         /\ last'.new = last.new /\ last'.coords = last.coords)
        => resolvedToasts' = resolvedToasts ]_vars

\* C3: an INSERT event whose hazard is farther than the radius from the
\* location of the channel never shows a toast, however often it is
\* delivered; the first INSERT event of an id at a distance within the
\* radius shows one.
C3_RadiusGate ==
    [][ (last'.op = "insert" /\ Delivered(last'))
        => /\ Placement(last'.ch, last'.coords) = "far"
                => newToasts' = newToasts
           /\ (/\ Placement(last'.ch, last'.coords) = "near"
               /\ firstCreate[last'.id] = "none")
                => newToasts'[last'.id] = newToasts[last'.id] + 1 ]_vars

\* a far INSERT event delivered again after it was dropped, with no toast
\* for it, while a near first INSERT of the other id was shown
C3_Witness ==
    /\ last.op = "insert"
    /\ Delivered(last)
    /\ Placement(last.ch, last.coords) = "far"
    /\ firstCreate[last.id] = "far"
    /\ last.outcome = "dup"
    /\ newToasts[last.id] = 0
    /\ \E g \in HazardIds : firstCreate[g] = "near" /\ newToasts[g] = 1

\* C4: an id whose first INSERT event was dropped by the radius gate is
\* recorded as seen and stays without a "new hazard" toast: no later INSERT
\* event for it shows one, also after the location changed so that the
\* hazard is within the radius.
C4_RadiusDroppedStaysSilent ==
    /\ [](\A h \in HazardIds :
            firstCreate[h] = "far" => h \in processedHazards /\ newToasts[h] = 0)
    /\ [][ (/\ last'.op = "insert" /\ Delivered(last')
            /\ firstCreate[last'.id] = "far")
           => newToasts' = newToasts ]_vars

\* the INSERT event of a radius-dropped id delivered again to a channel
\* whose location is within the radius of the hazard
C4_Witness ==
    /\ last.op = "insert"
    /\ Delivered(last)
    /\ firstCreate[last.id] = "far"
    /\ Placement(last.ch, last.coords) = "near"
    /\ last.outcome = "dup"
    /\ newToasts[last.id] = 0

\* C5: an UPDATE event shows a "hazard resolved" toast only if its previous
\* status is not fixed and its new status is fixed; every other UPDATE
\* event shows nothing; no UPDATE event changes the dedup set or shows a
\* "new hazard" toast.
C5_OnlyResolutionNotifies ==
    [][ (last'.op = "update" /\ Delivered(last'))
        => /\ processedHazards' = processedHazards
           /\ newToasts' = newToasts
           /\ (resolvedToasts' # resolvedToasts
                 => last'.old # "fixed" /\ last'.new = "fixed") ]_vars

\* an UPDATE event of a hazard within the radius that was fixed before and
\* is fixed after (a note edited on a fixed report)
C5_Witness ==
    /\ last.op = "update"
    /\ Delivered(last)
    /\ last.old = "fixed"
    /\ last.new = "fixed"
    /\ Placement(last.ch, last.coords) = "near"
    /\ last.outcome = "ignored"

\* C6: a resolution UPDATE event of a hazard within the radius shows a
\* "hazard resolved" toast also when no INSERT event of that id was
\* processed before, or when its INSERT event was dropped by the radius gate.
C6_ResolvedNeedsNoCreate ==
    [][ (/\ last'.op = "update" /\ Delivered(last')
         /\ last'.old # "fixed" /\ last'.new = "fixed"
         /\ Placement(last'.ch, last'.coords) = "near"
         /\ firstCreate[last'.id] \in {"none", "far"})
        => resolvedToasts'[last'.id] = resolvedToasts[last'.id] + 1 ]_vars

\* a resolved toast for an id no INSERT event was processed for, while the
\* other id, whose INSERT was radius-dropped, got its resolved toast too
C6_Witness ==
    /\ last.op = "update"
    /\ last.outcome = "shown"
    /\ firstCreate[last.id] = "none"
    /\ \E g \in HazardIds :
          firstCreate[g] = "far" /\ newToasts[g] = 0 /\ resolvedToasts[g] > 0

\* the stage of a hazard id in the lifecycle of 4.5
Stage(h) ==
    IF resolvedToasts[h] > 0 THEN 2
    ELSE IF h \in processedHazards \/ newToasts[h] > 0 THEN 1
    ELSE 0

\* C7 (as claimed): per hazard id the notifier moves only along
\* unseen (0) -> notified-created (1) -> notified-resolved (2), one stage
\* at a time and never backwards, and no toast of either kind is shown for
\* an id that is in notified-resolved.
C7_LinearLifecycle ==
    [][ \A h \in HazardIds :
          /\ Stage(h)' \in {Stage(h), Stage(h) + 1}
          /\ Stage(h) = 2 => /\ newToasts'[h] = newToasts[h]
                             /\ resolvedToasts'[h] = resolvedToasts[h] ]_vars

\* C7 (amended): per hazard id nothing moves backwards and the create side
\* is one-way: an id that is in the seen set stays in it and gets no
\* further "new hazard" toast, and a "new hazard" toast is shown only in the
\* step that adds the id to the seen set.
C7_CreateSideOneWay ==
    [][ \A h \in HazardIds :
          /\ newToasts'[h] >= newToasts[h]
          /\ resolvedToasts'[h] >= resolvedToasts[h]
          /\ h \in processedHazards
               => h \in processedHazards' /\ newToasts'[h] = newToasts[h]
          /\ newToasts'[h] > newToasts[h]
               => h \notin processedHazards /\ h \in processedHazards' ]_vars

\* an id whose first toast was the resolved one (unseen to notified-resolved
\* in one step) and whose "new hazard" toast was shown after it
C7_Witness ==
    \E h \in HazardIds :
       /\ firstKind[h] = "resolved"
       /\ newToasts[h] = 1
       /\ h \in processedHazards
       /\ last.op = "insert" /\ last.id = h /\ last.outcome = "shown"

\* C8: INSERT and resolution events are deduplicated independently: the
\* first resolution UPDATE of an id within the radius is shown although the
\* INSERT event of the id was processed (shown or dropped) before, and the
\* first INSERT event of an id within the radius is shown although a
\* resolved toast of the id was shown before.
C8_KindsIndependent ==
    [][ /\ (/\ last'.op = "update" /\ Delivered(last')
            /\ last'.old # "fixed" /\ last'.new = "fixed"
            /\ Placement(last'.ch, last'.coords) = "near"
            /\ firstCreate[last'.id] # "none"
            /\ resolvedToasts[last'.id] = 0)
           => resolvedToasts'[last'.id] = 1
        /\ (/\ last'.op = "insert" /\ Delivered(last')
            /\ Placement(last'.ch, last'.coords) = "near"
            /\ firstCreate[last'.id] = "none"
            /\ resolvedToasts[last'.id] > 0)
           => newToasts'[last'.id] = newToasts[last'.id] + 1 ]_vars

\* one id notified as new and then as resolved, the other notified as
\* resolved and then as new
C8_Witness ==
    \E h, g \in HazardIds :
       /\ firstKind[h] = "new" /\ resolvedToasts[h] > 0
       /\ firstKind[g] = "resolved" /\ newToasts[g] = 1

\* C9 (as claimed): an INSERT event without coordinates shows no toast and
\* leaves the dedup set as it was.
C9_MalformedLeavesSetUnchanged ==
    [][ (/\ last'.op = "insert" /\ Delivered(last')
         /\ last'.coords = NoCoord)
        => /\ newToasts' = newToasts
           /\ processedHazards' = processedHazards ]_vars

\* the hook is torn down: unmounted, disabled, or without a location
TornDown == ~mounted \/ ~enabled \/ currentLocation = NoCoord

\* C10: while the hook is unmounted, disabled or without a location no
\* channel is subscribed, and no step taken from such a state shows a toast.
C10_NoToastAfterTeardown ==
    /\ [](TornDown => channels = {})
    /\ [][ TornDown => /\ newToasts' = newToasts
                       /\ resolvedToasts' = resolvedToasts ]_vars

\* after a toast was shown the notifications were disabled, and a first
\* INSERT event of a hazard next to the user arrived and ran no callback
C10_Witness ==
    /\ mounted
    /\ ~enabled
    /\ currentLocation # NoCoord
    /\ \E h \in HazardIds : newToasts[h] + resolvedToasts[h] > 0
    /\ last.op = "insert"
    /\ last.outcome = "undelivered"
    /\ last.id \notin processedHazards
    /\ Placement(currentLocation, last.coords) = "near"

\* C11 (as claimed): the set of processed ids is discarded when the
\* notifications are disabled: when they are enabled again the set is empty.
C11_SetDiscardedOnDisable ==
    [][ (mounted /\ ~enabled /\ enabled') => processedHazards' = {} ]_vars

\* C12: the set of processed ids is empty when the session starts and no id
\* ever leaves it, whatever events, location changes and enable/disable
\* toggles follow.
C12_SetGrowsMonotonically ==
    /\ [](last.op = "init" => processedHazards = {})
    /\ [][ processedHazards \subseteq processedHazards' ]_vars

\* the notifications were switched on again with a new location while both
\* ids were in the set
C12_Witness ==
    /\ last.op = "render"
    /\ enabled
    /\ effectChannel = UserNorth
    /\ processedHazards = HazardIds
    /\ \E h \in HazardIds : firstCreate[h] = "near" /\ h \in processedHazards

\* C33: a hook instance holds at most one subscribed channel, the one its
\* last effect run created from the current location (none while it is
\* unmounted, disabled or without a location), and a callback that runs
\* evaluates its event against that location.
C33_OneChannelOfCurrentLocation ==
    /\ Cardinality(channels) <= 1
    /\ channels = IF mounted /\ EffectSubscribes(currentLocation, enabled)
                  THEN {currentLocation}
                  ELSE {}
    /\ Delivered(last) => last.ch = currentLocation

\* after the hook showed a toast, an INSERT event next to the other user
\* location ran the callback of the one channel and was dropped as far
\* from the current location
C33_Witness ==
    /\ mounted
    /\ channels = {currentLocation}
    /\ \E h \in HazardIds : h # last.id /\ newToasts[h] > 0
    /\ last.op = "insert"
    /\ last.outcome = "dropped"
    /\ Placement(currentLocation, last.coords) = "far"
    /\ \E loc \in UserLocations : Placement(loc, last.coords) = "near"

(***************************************************************************)
(* RouteSafetyScorer (4.3): calculateRouteSafety of src/unnamed/part_002.  *)
(***************************************************************************)
(* ------------------------------ bounds --------------------------------- *)
MaxRouteLen == 11
MaxHazards == 4

(* ------------------------------ inputs --------------------------------- *)
\* the fields of a hazard report the scorer reads
ScoredHazard(status, coords) == [status |-> status, coords |-> coords]

HazardChoices ==
    {ScoredHazard("pending", c) : c \in ScoredCoords \ {PointAt(225)}}
        \cup {ScoredHazard("fixed", PointAt(0))}

\* the paths scored: the coordinates at positions 0, 5, 10 vary, the
\* coordinates between them are RouteFiller
RouteChoices ==
    { [i \in 1..n |-> IF (i - 1) % 5 = 0 THEN at[(i - 1) \div 5]
                                        ELSE RouteFiller] :
        n \in 0..MaxRouteLen,
        at \in [0..(MaxRouteLen \div 5) -> RoutePoints] }

SeqsUpTo(S, n) == UNION {[1..k -> S] : k \in 0..n}

(* ------------------------------ scorer --------------------------------- *)
Max(a, b) == IF a >= b THEN a ELSE b

\* mutant: every coordinate of the path is evaluated
IsSampled_All(idx) == TRUE

\* idx % 5 === 0, idx counted from 0
IsSampled(idx) == idx % 5 = 0

\* routeCoordinates.filter((_, idx) => idx % 5 === 0)
RECURSIVE FilterSampled(_, _)
FilterSampled(route, i) ==
    IF i > Len(route) THEN <<>>
    ELSE (IF IsSampled(i - 1) THEN <<route[i]>> ELSE <<>>)
             \o FilterSampled(route, i + 1)

samplePoints(route) == FilterSampled(route, 1)

\* mutant: the bounds of the bands belong to the nearer band
ProximityPenalty_Inclusive(distance) ==
    IF distance = NaN THEN 0
    ELSE IF distance <= 500 THEN 10
    ELSE IF distance <= 1000 THEN 5
    ELSE IF distance <= 2000 THEN 2
    ELSE 0

\* mutant: the weights of the bands are the wrong way round
ProximityPenalty_Inverted(distance) ==
    IF distance = NaN THEN 0
    ELSE IF distance < 500 THEN 2
    ELSE IF distance < 1000 THEN 5
    ELSE IF distance < 2000 THEN 10
    ELSE 0

\* if (distance < 0.5) += 10; else if (distance < 1) += 5;
\* else if (distance < 2) += 2     (distance in metres here)
ProximityPenalty(distance) ==
    IF distance = NaN THEN 0
    ELSE IF distance < 500 THEN 10
    ELSE IF distance < 1000 THEN 5
    ELSE IF distance < 2000 THEN 2
    ELSE 0

\* mutant: fixed hazards are scored like the others
IsFixed_Never(hazard) == FALSE

\* hazard.status === 'fixed'
IsFixed(hazard) == hazard.status = "fixed"

\* the body of hazards.forEach for one point and one hazard
HazardPenalty(point, hazard) ==
    IF IsFixed(hazard) THEN 0
    ELSE ProximityPenalty(calculateDistance(point, hazard.coords))

\* hazards.forEach(...) for one point, from hazard j on
RECURSIVE PointPenalty(_, _, _)
PointPenalty(point, hs, j) ==
    IF j > Len(hs) THEN 0
    ELSE HazardPenalty(point, hs[j]) + PointPenalty(point, hs, j + 1)

\* samplePoints.forEach(...): hazardProximityScore, from point i on
RECURSIVE hazardProximityScore(_, _, _)
hazardProximityScore(points, hs, i) ==
    IF i > Len(points) THEN 0
    ELSE PointPenalty(points[i], hs, 1)
             + hazardProximityScore(points, hs, i + 1)

\* mutant: the result is not clamped
ClampScore_Unclamped(penalty) == 100 - penalty

\* Math.max(0, 100 - hazardProximityScore)
ClampScore(penalty) == Max(0, 100 - penalty)

calculateRouteSafety(route, hs) ==
    IF Len(hs) = 0 THEN 100
    ELSE ClampScore(hazardProximityScore(samplePoints(route), hs, 1))

(* ------------------------------ actions -------------------------------- *)
\* a caller holds a path and a hazard list
ScoreInit ==
    /\ NotifierStart
    /\ ViewStart
    /\ RankerIdle
    /\ ExtraIdle
    /\ routeCoordinates \in RouteChoices
    /\ hazards \in SeqsUpTo(HazardChoices, MaxHazards)
    /\ safetyScore = 100
    /\ scorePc = "called"

\* the call returns
CalculateRouteSafety ==
    /\ scorePc = "called"
    /\ safetyScore' = calculateRouteSafety(routeCoordinates, hazards)
    /\ scorePc' = "returned"
    /\ UNCHANGED <<outsideScorer, routeCoordinates, hazards>>

ScoreNext == CalculateRouteSafety

SpecScore == ScoreInit /\ [][ScoreNext]_vars

(* ------------------------------ claims --------------------------------- *)
\* the penalty of the call, summed as 4.3 states it: over the coordinates
\* at positions 0, 5, 10, ... and the hazards that are not fixed
BandOf(point, coords) ==
    LET d == DistanceTable[<<point, coords>>]
    IN  IF d < 500 THEN 10 ELSE IF d < 1000 THEN 5
        ELSE IF d < 2000 THEN 2 ELSE 0

RECURSIVE SumOver(_, _)
SumOver(S, f) ==
    IF S = {} THEN 0
    ELSE LET x == CHOOSE y \in S : TRUE
         IN  f[x] + SumOver(S \ {x}, f)

StatedPenalty(route, hs) ==
    LET pairs == { <<i, j>> \in (1..Len(route)) \X (1..Len(hs)) :
                      (i - 1) % 5 = 0 /\ hs[j].status # "fixed" }
    IN  SumOver(pairs, [pr \in pairs |->
                           BandOf(route[pr[1]], hs[pr[2]].coords)])

\* C13: the score returned is an integer from 0 to 100, also when the
\* penalty is above 100.
C13_ScoreInRange ==
    scorePc = "returned" => safetyScore \in 0..100

\* a call whose penalty is above 100 returned 0
C13_Witness ==
    /\ scorePc = "returned"
    /\ StatedPenalty(routeCoordinates, hazards) > 100
    /\ safetyScore = 0

\* the positions of a path that are evaluated, and the others
SampledAt(route) == {i \in 1..Len(route) : (i - 1) % 5 = 0}
SkippedAt(route) == (1..Len(route)) \ SampledAt(route)

\* C14: the score is 100 when the hazard list is empty or holds fixed
\* hazards only, and a fixed hazard never changes the score: adding one
\* anywhere, or dropping all of them, leaves the score as it is.
C14_FixedHazardsDoNotCount ==
    scorePc = "returned" =>
       /\ (\A j \in 1..Len(hazards) : hazards[j].status = "fixed")
             => safetyScore = 100
       /\ \A c \in ScoredCoords :
             calculateRouteSafety(routeCoordinates,
                 Append(hazards, ScoredHazard("fixed", c))) = safetyScore
       /\ calculateRouteSafety(routeCoordinates,
              SelectSeq(hazards, LAMBDA h : h.status # "fixed"))
            = safetyScore

\* a path that starts on top of a fixed hazard, the only kind in the list,
\* scored 100
C14_Witness ==
    /\ scorePc = "returned"
    /\ Len(hazards) >= 2
    /\ \A j \in 1..Len(hazards) : hazards[j].status = "fixed"
    /\ Len(routeCoordinates) >= 1
    /\ routeCoordinates[1] = hazards[1].coords
    /\ safetyScore = 100

\* C15: the score is max(0, 100 - P), P the sum over the evaluated
\* coordinates and the hazards that are not fixed of 10 (distance below
\* 0.5 km), 5 (from 0.5 km, below 1 km), 2 (from 1 km, below 2 km), 0 (from
\* 2 km).
C15_ScoreIsClampedPenalty ==
    scorePc = "returned" =>
       safetyScore =
          Max(0, 100 - StatedPenalty(routeCoordinates, hazards))

\* a score strictly between 0 and 100 from a call with a hazard at exactly
\* 0.5 km of an evaluated coordinate and one at exactly 1 km of one
C15_Witness ==
    /\ scorePc = "returned"
    /\ safetyScore \in 1..99
    /\ \E i, m \in SampledAt(routeCoordinates), j, k \in 1..Len(hazards) :
          /\ hazards[j].status # "fixed"
          /\ hazards[k].status # "fixed"
          /\ DistanceTable[<<routeCoordinates[i], hazards[j].coords>>] = 500
          /\ DistanceTable[<<routeCoordinates[m], hazards[k].coords>>] = 1000

\* C16: only the coordinates at positions 0, 5, 10, ... count: replacing
\* a coordinate at another position by any point, dropping the last
\* coordinate when it is at such a position, or appending one at such a
\* position, leaves the score as it is.
C16_OnlyEveryFifthPoint ==
    scorePc = "returned" =>
       /\ \A i \in SkippedAt(routeCoordinates),
             p \in RoutePoints \cup ScoredCoords :
             calculateRouteSafety([routeCoordinates EXCEPT ![i] = p],
                                  hazards) = safetyScore
       /\ Len(routeCoordinates) \in SkippedAt(routeCoordinates)
             => calculateRouteSafety(
                    SubSeq(routeCoordinates, 1, Len(routeCoordinates) - 1),
                    hazards) = safetyScore
       /\ Len(routeCoordinates) % 5 # 0
             => \A p \in RoutePoints \cup ScoredCoords :
                   calculateRouteSafety(Append(routeCoordinates, p),
                                        hazards) = safetyScore

\* a path of two evaluated coordinates 0.5 km from the only hazard, which
\* lies on top of the coordinates between them: 100 - 2 * 5
C16_Witness ==
    /\ scorePc = "returned"
    /\ Len(routeCoordinates) = 10
    /\ \A i \in SampledAt(routeCoordinates) :
          routeCoordinates[i] = PointAt(0)
    /\ hazards = <<ScoredHazard("pending", RouteFiller)>>
    /\ \A i \in SkippedAt(routeCoordinates) :
          routeCoordinates[i] = hazards[1].coords
    /\ safetyScore = 90

Reverse(seq) == [i \in 1..Len(seq) |-> seq[Len(seq) + 1 - i]]

SwapAt(seq, j) ==
    [i \in 1..Len(seq) |->
        IF i = j THEN seq[j + 1] ELSE IF i = j + 1 THEN seq[j] ELSE seq[i]]

\* the score of the call with hazard j moved to c
ScoreMoved(j, c) ==
    calculateRouteSafety(routeCoordinates,
                         [hazards EXCEPT ![j].coords = c])

\* the score does not depend on the order of the hazards nor on the order
\* in which the evaluated coordinates are visited, and one more hazard
\* never raises it
OrderFreeAndAdditive ==
    /\ \A h \in HazardChoices :
          calculateRouteSafety(routeCoordinates, Append(hazards, h))
             <= safetyScore
    /\ \A j \in 1..(Len(hazards) - 1) :
          calculateRouteSafety(routeCoordinates, SwapAt(hazards, j))
             = safetyScore
    /\ calculateRouteSafety(routeCoordinates, Reverse(hazards))
          = safetyScore
    /\ Len(hazards) > 0
          => ClampScore(hazardProximityScore(
                 Reverse(samplePoints(routeCoordinates)), hazards, 1))
               = safetyScore

\* C17 (as claimed): one more hazard never raises the score, the order of
\* hazards and of evaluated coordinates does not matter, and moving a hazard
\* into a closer penalty band of an evaluated coordinate never raises the
\* score.
C17_CloserToOnePointNeverRaises ==
    scorePc = "returned" =>
       /\ OrderFreeAndAdditive
       /\ \A j \in 1..Len(hazards), c \in ScoredCoords :
             (\E i \in SampledAt(routeCoordinates) :
                 BandOf(routeCoordinates[i], c)
                    > BandOf(routeCoordinates[i], hazards[j].coords))
             => ScoreMoved(j, c) <= safetyScore

\* C17 (amended): one more hazard never raises the score, the order of
\* hazards and of evaluated coordinates does not matter, and moving a hazard
\* so that it is in the same or a closer penalty band of every evaluated
\* coordinate never raises the score.
C17_CloserToEveryPointNeverRaises ==
    scorePc = "returned" =>
       /\ OrderFreeAndAdditive
       /\ \A j \in 1..Len(hazards), c \in ScoredCoords :
             (\A i \in SampledAt(routeCoordinates) :
                 BandOf(routeCoordinates[i], c)
                    >= BandOf(routeCoordinates[i], hazards[j].coords))
             => ScoreMoved(j, c) <= safetyScore

\* a call with two hazards in different bands of two evaluated coordinates,
\* one of which can move into a closer band of both
C17_Witness ==
    /\ scorePc = "returned"
    /\ Len(hazards) >= 2
    /\ hazards[1] # hazards[2]
    /\ Cardinality(SampledAt(routeCoordinates)) >= 2
    /\ safetyScore \in 1..99
    /\ \E j \in 1..Len(hazards), c \in ScoredCoords :
          /\ hazards[j].status # "fixed"
          /\ \A i \in SampledAt(routeCoordinates) :
                BandOf(routeCoordinates[i], c)
                   > BandOf(routeCoordinates[i], hazards[j].coords)
          /\ ScoreMoved(j, c) < safetyScore

(* ------------------ MapView: routeSafetyScores (4.3, 5) ---------------- *)
MaxReports == 2
MaxCalculating == 2

\* the position geolocation reports, or VIGAN_CENTER as the fallback
ViewLocations == {VIGAN_CENTER, PointAt(225)}

\* rows of hazard_reports: a hazard at the centre of Vigan, pending or
\* fixed
ViewHazards ==
    {ScoredHazard("pending", VIGAN_CENTER),
     ScoredHazard("fixed", VIGAN_CENTER)}

\* currentEvacuationRoutes[r].waypoints for a known location
Waypoints(loc, r) == <<loc, RouteEnd(r)>>

\* a geometry of the routing service for two waypoints: six vertices from
\* the first waypoint to the second
Road(waypoints) ==
    <<waypoints[1], waypoints[1], waypoints[1], waypoints[1], waypoints[1],
      waypoints[2]>>

\* a GeoJSON position is [lng, lat]
ToGeoJson(path) == [i \in 1..Len(path) |-> <<path[i].lon, path[i].lat>>]

\* .map(([lng, lat]) => [lat, lng])
FromGeoJson(coordinates) ==
    [i \in 1..Len(coordinates) |->
        Coord(coordinates[i][2], coordinates[i][1])]

\* What the routing service does with one request: fetch() resolves or
\* throws, response.json() resolves or throws, the body is null or an
\* object with or without a code, with routes absent, empty or holding a
\* route, whose geometry is absent or has coordinates.
RoutingResponse(fetch, json, body, code, routes, geometry, coordinates) ==
    [fetch |-> fetch, json |-> json, body |-> body, code |-> code,
     routes |-> routes, geometry |-> geometry, coordinates |-> coordinates]

OkResponse(coordinates) ==
    RoutingResponse("ok", "ok", "object", "Ok", "present", "present",
                    coordinates)

NetworkError ==
    RoutingResponse("throws", "ok", "object", "absent", "absent", "absent",
                    <<>>)

\* how an async function settles
Fulfilled(value) == [state |-> "fulfilled", value |-> value]
Rejected == [state |-> "rejected", value |-> <<>>]
Thrown == [threw |-> TRUE, value |-> <<>>]
Returned(value) == [threw |-> FALSE, value |-> value]

\* data.code === 'Ok' && data.routes && data.routes[0]
RouteFound(response) ==
    /\ response.code = "Ok"
    /\ response.routes # "absent"
    /\ response.routes = "present"

\* the try block: an exception of fetch or json, or a TypeError on a null
\* body or on a route without geometry, leaves it
TryFetch(waypoints, response) ==
    IF response.fetch = "throws" THEN Thrown
    ELSE IF response.json = "throws" THEN Thrown
    ELSE IF response.body = "null" THEN Thrown
    ELSE IF RouteFound(response)
         THEN IF response.geometry = "absent" THEN Thrown
              ELSE Returned(FromGeoJson(response.coordinates))
    ELSE Returned(waypoints)

\* mutant: the catch block throws again
Caught_Rethrows(waypoints) == Rejected

\* catch (error) { console.error(..); return waypoints; }
Caught(waypoints) == Fulfilled(waypoints)

\* fetchRoute: the promise it returns
fetchRoute(waypoints, response) ==
    LET body == TryFetch(waypoints, response)
    IN  IF body.threw THEN Caught(waypoints) ELSE Fulfilled(body.value)

\* the two outcomes the score effect can see: a geometry, or the waypoints
FetchRouteKinds == {"road", "waypoints"}
ResponseOf(kind, waypoints) ==
    IF kind = "road" THEN OkResponse(ToGeoJson(Road(waypoints)))
                     ELSE NetworkError

\* the path the caller gets after await
AwaitRoute(waypoints, kind) ==
    fetchRoute(waypoints, ResponseOf(kind, waypoints)).value

\* the dependency array [hazardReports.length]: the effect runs again
\* when the length differs from the one of its last run
EffectRuns(dep, reports) == Len(reports) # dep

\* the scores one call of calculateSafety computes from what it captured
ComputedScores(loc, reports, kinds) ==
    [r \in RouteIds |->
        calculateRouteSafety(AwaitRoute(Waypoints(loc, r), kinds[r]),
                             reports)]

\* getCurrentPosition calls back once (success or error), or geolocation
\* is missing: setCurrentLocation.  currentEvacuationRoutes and the
\* routeSafetyScores memo are rebuilt; the length did not change, so the
\* effect does not run.
LocationResolved(loc) ==
    /\ viewLocation = NoCoord
    /\ viewLocation' = loc
    /\ routeSafetyScores' = [r \in RouteIds |-> 100]
    /\ UNCHANGED <<hazardReports, lengthDep, calculating, latestStarted>>
    /\ UNCHANGED outsideView

\* fetchHazardReports resolves (on mount or after a change event):
\* setHazardReports(data).  The effect runs when the length changed, and
\* starts calculateSafety when the location is known.
HazardReportsLoaded(data) ==
    LET runs == EffectRuns(lengthDep, data)
        starts == runs /\ viewLocation # NoCoord
    IN  /\ starts => Len(calculating) < MaxCalculating
        /\ hazardReports' = data
        /\ lengthDep' = IF runs THEN Len(data) ELSE lengthDep
        /\ calculating' = IF starts THEN Append(calculating, data)
                                    ELSE calculating
        /\ latestStarted' = IF starts THEN [started |-> TRUE, reports |-> data]
                                      ELSE latestStarted
        /\ UNCHANGED <<viewLocation, routeSafetyScores>>
        /\ UNCHANGED outsideView

\* the pending calls without call i
WithoutCall(calls, i) ==
    SubSeq(calls, 1, i - 1) \o SubSeq(calls, i + 1, Len(calls))

\* pending call i of calculateSafety got its last route: it scores the
\* routes against the reports it captured and assigns the scores to the
\* memo
CalculateSafetyDone(i, kinds) ==
    /\ i \in 1..Len(calculating)
    /\ LET scores == ComputedScores(viewLocation, calculating[i], kinds)
           hasChanged == \E key \in RouteIds :
                            routeSafetyScores[key] # scores[key]
       IN  routeSafetyScores' = IF hasChanged THEN scores
                                              ELSE routeSafetyScores
    /\ calculating' = WithoutCall(calculating, i)
    /\ UNCHANGED <<viewLocation, hazardReports, lengthDep, latestStarted>>
    /\ UNCHANGED outsideView

CalculateSafetyReturns ==
    \E i \in 1..Len(calculating), kinds \in [RouteIds -> FetchRouteKinds] :
        CalculateSafetyDone(i, kinds)

MapNext ==
    \/ \E loc \in ViewLocations : LocationResolved(loc)
    \/ \E data \in SeqsUpTo(ViewHazards, MaxReports) :
          HazardReportsLoaded(data)
    \/ CalculateSafetyReturns

\* every request of fetchRoute is answered
SpecMap == Init /\ [][MapNext]_vars /\ WF_vars(CalculateSafetyReturns)

\* the scores are the scorer's result for the current reports and the
\* current routes, for some geometry fetchRoute can return
ScoresCurrent ==
    \A r \in RouteIds :
       \E kind \in FetchRouteKinds :
          routeSafetyScores[r] =
             calculateRouteSafety(AwaitRoute(Waypoints(viewLocation, r), kind),
                                  hazardReports)

\* C18: once the location is known, when the hazard list and the location
\* stop changing the scores of the map view end up equal to the scorer's
\* result for the current hazards and the current routes.
C18_ScoresEventuallyCurrent ==
    <>[][UNCHANGED <<hazardReports, viewLocation>>]_vars
       => <>[](viewLocation # NoCoord => ScoresCurrent)

\* C30: when no call of calculateSafety is pending any more, the scores
\* stored are those the call started last computed from the reports it
\* captured.
C30_LatestRecomputationWins ==
    (Len(calculating) = 0 /\ latestStarted.started) =>
       \E kinds \in [RouteIds -> FetchRouteKinds] :
          routeSafetyScores =
             ComputedScores(viewLocation, latestStarted.reports, kinds)

(* ----------------- SafeZoneRanker: nearbySafeZones (4.2) --------------- *)
MaxZones == 7

\* .slice(0, 5)
NEAREST_COUNT == 5

\* a zone of the catalog; the name is the rank of the zone in the catalog
SafeZone(name, position) == [name |-> name, position |-> position]

\* catalogs of 0 .. MaxZones zones, several zones at one position allowed
ZoneCatalogs ==
    UNION {{[i \in 1..n |-> SafeZone(i, place[i])] :
              place \in [1..n -> ZonePositions]} : n \in 0..MaxZones}

\* currentLocation of MapView: not known yet, or a position
ZoneLocations == {NoCoord} \cup ViewLocations

Min(a, b) == IF a <= b THEN a ELSE b

\* zonesWithDistance: { ...zone, distance }
zonesWithDistance(zones, loc) ==
    [i \in 1..Len(zones) |->
        [name |-> zones[i].name, position |-> zones[i].position,
         distance |-> calculateDistance(loc, zones[i].position)]]

\* mutant: a zone goes before the zones at the same distance
ComesBefore_OnTies(a, b) == a.distance - b.distance <= 0

\* the comparator (a, b) => a.distance - b.distance puts a before b when
\* it is negative
ComesBefore(a, b) == a.distance - b.distance < 0

\* Array.prototype.sort is stable: an element is placed behind every
\* element that does not come after it
RECURSIVE InsertSorted(_, _)
InsertSorted(sorted, z) ==
    IF sorted = <<>> THEN <<z>>
    ELSE IF ComesBefore(z, Head(sorted)) THEN <<z>> \o sorted
    ELSE <<Head(sorted)>> \o InsertSorted(Tail(sorted), z)

RECURSIVE SortFrom(_, _, _)
SortFrom(zs, i, sorted) ==
    IF i > Len(zs) THEN sorted
    ELSE SortFrom(zs, i + 1, InsertSorted(sorted, zs[i]))

\* .sort((a, b) => a.distance - b.distance)
SortByDistance(zs) == SortFrom(zs, 1, <<>>)

\* mutant: nothing is cut off
Slice_Whole(zs, end) == zs

\* .slice(0, end)
Slice(zs, end) == SubSeq(zs, 1, Min(end, Len(zs)))

\* ALL_SAFE_ZONES after the memo ran: .map() builds a new array and
\* .sort() orders that array, the catalog is only read
CatalogAfterRanking(zones, loc) == zones

\* the useMemo of nearbySafeZones for a catalog and a location
nearbySafeZones(zones, loc) ==
    IF loc = NoCoord THEN <<>>
    ELSE Slice(SortByDistance(zonesWithDistance(zones, loc)), NEAREST_COUNT)

(* ------------------------------ actions -------------------------------- *)
\* MapView renders with a catalog and a location
RankInit ==
    /\ NotifierStart
    /\ ScorerIdle
    /\ ViewStart
    /\ ExtraIdle
    /\ safeZones \in ZoneCatalogs
    /\ zoneLocation \in ZoneLocations
    /\ nearestZones = <<>>
    /\ zonePc = "called"

\* the memo is evaluated
NearbySafeZones ==
    /\ zonePc = "called"
    /\ nearestZones' = nearbySafeZones(safeZones, zoneLocation)
    /\ zonePc' = "returned"
    /\ safeZones' = CatalogAfterRanking(safeZones, zoneLocation)
    /\ UNCHANGED zoneLocation
    /\ UNCHANGED outsideRanker

RankNext == NearbySafeZones

SpecRank == RankInit /\ [][RankNext]_vars

(* ------------------------------ claims --------------------------------- *)
\* the catalog entry a returned zone was made from
Ranked(z) ==
    /\ z.name \in 1..Len(safeZones)
    /\ z.position = safeZones[z.name].position
    /\ z.distance = calculateDistance(zoneLocation, z.position)

\* the ranks in the catalog of the zones returned
ReturnedNames == {nearestZones[i].name : i \in 1..Len(nearestZones)}

\* the distance of the catalog zone of rank k
DistanceOf(k) == calculateDistance(zoneLocation, safeZones[k].position)

\* C19: the ranking has min(limit, number of zones) entries, limit 5, each
\* a different zone of the catalog, in order of non-decreasing distance
\* from the reference point; no zone left out is strictly nearer than a
\* returned one; an empty catalog gives an empty sequence.
C19_NearestInOrder ==
    (zonePc = "returned" /\ zoneLocation # NoCoord) =>
       /\ Len(nearestZones) = Min(NEAREST_COUNT, Len(safeZones))
       /\ \A i \in 1..Len(nearestZones) : Ranked(nearestZones[i])
       /\ Cardinality(ReturnedNames) = Len(nearestZones)
       /\ \A i, j \in 1..Len(nearestZones) :
             i < j => nearestZones[i].distance <= nearestZones[j].distance
       /\ \A k \in (1..Len(safeZones)) \ ReturnedNames :
             \A i \in 1..Len(nearestZones) :
                DistanceOf(k) >= nearestZones[i].distance
       /\ (Len(safeZones) = 0 => Len(nearestZones) = 0)

\* a catalog of more than five zones whose nearest zone is not its first:
\* five returned, a farther one left out
C19_Witness ==
    /\ zonePc = "returned"
    /\ zoneLocation # NoCoord
    /\ Len(safeZones) > NEAREST_COUNT
    /\ Len(nearestZones) = NEAREST_COUNT
    /\ nearestZones[1].name # 1
    /\ nearestZones[1].distance < nearestZones[NEAREST_COUNT].distance
    /\ \E k \in (1..Len(safeZones)) \ ReturnedNames :
          DistanceOf(k) > nearestZones[NEAREST_COUNT].distance

\* C20: zones at the same distance keep the order of the catalog, among
\* the zones returned and between a zone returned and a zone left out.
C20_TiesKeepCatalogOrder ==
    (zonePc = "returned" /\ zoneLocation # NoCoord) =>
       /\ \A i, j \in 1..Len(nearestZones) :
             (i < j /\ nearestZones[i].distance = nearestZones[j].distance)
                => nearestZones[i].name < nearestZones[j].name
       /\ \A k \in (1..Len(safeZones)) \ ReturnedNames :
             \A i \in 1..Len(nearestZones) :
                DistanceOf(k) = nearestZones[i].distance
                   => nearestZones[i].name < k

\* two zones returned at one distance, behind a nearer zone that comes
\* later in the catalog, and a zone at the distance of the fifth left out
C20_Witness ==
    /\ zonePc = "returned"
    /\ zoneLocation # NoCoord
    /\ Len(nearestZones) = NEAREST_COUNT
    /\ \E i \in 2..(NEAREST_COUNT - 1) :
          /\ nearestZones[i].distance = nearestZones[i + 1].distance
          /\ nearestZones[1].distance < nearestZones[i].distance
          /\ nearestZones[1].name > nearestZones[i + 1].name
    /\ \E k \in (1..Len(safeZones)) \ ReturnedNames :
          DistanceOf(k) = nearestZones[NEAREST_COUNT].distance

(* ------------------------- fetchRoute (4.3, 7) ------------------------- *)
\* the waypoints of the routes, from the locations of the map view
WaypointChoices ==
    {Waypoints(loc, r) : loc \in ViewLocations, r \in RouteIds}

\* coordinates a geometry of the service can carry
GeometryChoices ==
    {<<>>} \cup {ToGeoJson(Road(Waypoints(VIGAN_CENTER, r))) : r \in RouteIds}

RoutingResponses ==
    {RoutingResponse(fetch, json, body, code, routes, geometry, coordinates) :
        fetch \in {"ok", "throws"}, json \in {"ok", "throws"},
        body \in {"null", "object"}, code \in {"Ok", "NoRoute", "absent"},
        routes \in {"absent", "empty", "present"},
        geometry \in {"absent", "present"},
        coordinates \in GeometryChoices}

(* ------------------------------ actions -------------------------------- *)
\* a caller asks for the path between two waypoints
FetchInit ==
    /\ BaseIdle
    /\ GeoIdle
    /\ AdminStart
    /\ SessionsIdle
    /\ DistIdle
    /\ ToastIdle
    /\ DisplayIdle
    /\ ReportsIdle
    /\ MapIdle
    /\ FixIdle
    /\ SubmitIdle
    /\ ApiIdle
    /\ ObjIdle
    /\ fetchWaypoints \in WaypointChoices
    /\ fetchResponse \in RoutingResponses
    /\ fetchResult = Null
    /\ fetchPc = "called"

\* the promise of fetchRoute settles
FetchRoute ==
    /\ fetchPc = "called"
    /\ fetchResult' = fetchRoute(fetchWaypoints, fetchResponse)
    /\ fetchPc' = "settled"
    /\ UNCHANGED <<fetchWaypoints, fetchResponse>>
    /\ UNCHANGED outsideFetch

FetchNext == FetchRoute

SpecFetch == FetchInit /\ [][FetchNext]_vars

(* ------------------------------ claims --------------------------------- *)
\* the routing collaborator failed: network error, exception while
\* parsing, no body, a code other than Ok, or no route in the answer
RoutingFailed(response) ==
    \/ response.fetch = "throws"
    \/ response.json = "throws"
    \/ response.body = "null"
    \/ response.code # "Ok"
    \/ response.routes \in {"absent", "empty"}

\* C21: when the routing collaborator fails, fetchRoute resolves with the
\* waypoints it was given, unchanged, and never rejects.
C21_FailureFallsBackToWaypoints ==
    (fetchPc = "settled" /\ RoutingFailed(fetchResponse)) =>
       fetchResult = Fulfilled(fetchWaypoints)

\* a request whose fetch threw, settled with the two waypoints it was given
C21_Witness ==
    /\ fetchPc = "settled"
    /\ fetchResponse.fetch = "throws"
    /\ fetchResponse.coordinates # <<>>
    /\ fetchResult.state = "fulfilled"
    /\ fetchResult.value = fetchWaypoints
    /\ Len(fetchResult.value) = 2

(* -------------------- MapView: location effect (6) --------------------- *)
MaxMounts == 3
MaxEffectRuns == 2

\* positions the provider reports
GeoPositions == ViewLocations \cup ZonePositions

\* part_002 line 340: if (hasInitialized.current) return;  the effect of
\* src/src/components/MapView.tsx (lines 276-293) has no ref and no guard
AlreadyInitialized(guarded, ref) == guarded /\ ref

\* setCurrentLocation(VIGAN_CENTER) of the error callback and of the
\* branch without geolocation
ErrorLocation == VIGAN_CENTER

(* ------------------------------ actions -------------------------------- *)
LocateInit ==
    /\ BaseIdle
    /\ FetchIdle
    /\ AdminStart
    /\ SessionsIdle
    /\ DistIdle
    /\ ToastIdle
    /\ DisplayIdle
    /\ ReportsIdle
    /\ MapIdle
    /\ FixIdle
    /\ SubmitIdle
    /\ ApiIdle
    /\ ObjIdle
    /\ geoSupported \in BOOLEAN
    /\ guardedCopy \in BOOLEAN
    /\ GeoMounted

\* The location effect runs (after the mount, and once more when React
\* runs the effects of a mount again, as React.StrictMode does in a
\* development build; the root render is not part of the sources).  Past
\* the guard, where the copy has one, it asks the provider, or without a
\* provider falls back at once.
LocationEffect ==
    /\ effectRuns < MaxEffectRuns
    /\ effectRuns' = effectRuns + 1
    /\ IF AlreadyInitialized(guardedCopy, hasInitialized)
       THEN /\ geoLast' = "guarded"
            /\ UNCHANGED <<hasInitialized, geoRequests, geoInFlight,
                           geoAnswered, geoLocation, locationError>>
       ELSE /\ hasInitialized' = guardedCopy
            /\ IF geoSupported
               THEN /\ geoRequests' = geoRequests + 1
                    /\ geoInFlight' = Append(geoInFlight, mountId)
                    /\ geoLast' = "request"
                    /\ UNCHANGED <<geoAnswered, geoLocation, locationError>>
               ELSE /\ locationError' = "unsupported"
                    /\ geoLocation' = ErrorLocation
                    /\ geoAnswered' = TRUE
                    /\ geoLast' = "unsupported"
                    /\ UNCHANGED <<geoRequests, geoInFlight>>
    /\ UNCHANGED <<geoSupported, guardedCopy, mountId>>
    /\ UNCHANGED outsideLocate

\* the success callback of request i; the state of a component that is
\* gone is not set
PositionSuccess(i, position) ==
    /\ i \in 1..Len(geoInFlight)
    /\ geoInFlight' = WithoutCall(geoInFlight, i)
    /\ IF geoInFlight[i] = mountId
       THEN /\ geoLocation' = position
            /\ locationError' = Null
            /\ geoAnswered' = TRUE
            /\ geoLast' = "success"
       ELSE /\ geoLast' = "stale"
            /\ UNCHANGED <<geoLocation, locationError, geoAnswered>>
    /\ UNCHANGED <<geoSupported, guardedCopy, mountId, hasInitialized,
                   effectRuns, geoRequests>>
    /\ UNCHANGED outsideLocate

\* the error callback of request i
PositionError(i) ==
    /\ i \in 1..Len(geoInFlight)
    /\ geoInFlight' = WithoutCall(geoInFlight, i)
    /\ IF geoInFlight[i] = mountId
       THEN /\ geoLocation' = ErrorLocation
            /\ locationError' = "unable"
            /\ geoAnswered' = TRUE
            /\ geoLast' = "error"
       ELSE /\ geoLast' = "stale"
            /\ UNCHANGED <<geoLocation, locationError, geoAnswered>>
    /\ UNCHANGED <<geoSupported, guardedCopy, mountId, hasInitialized,
                   effectRuns, geoRequests>>
    /\ UNCHANGED outsideLocate

\* MapView is unmounted and mounted again: new state, new ref
Remount ==
    /\ mountId < MaxMounts
    /\ mountId' = mountId + 1
    /\ hasInitialized' = FALSE
    /\ effectRuns' = 0
    /\ geoRequests' = 0
    /\ geoAnswered' = FALSE
    /\ geoLocation' = NoCoord
    /\ locationError' = Null
    /\ geoLast' = "mount"
    /\ UNCHANGED <<geoSupported, guardedCopy, geoInFlight>>
    /\ UNCHANGED outsideLocate

ProviderSucceeded ==
    \E i \in 1..Len(geoInFlight), position \in GeoPositions :
       PositionSuccess(i, position)

ProviderFailed == \E i \in 1..Len(geoInFlight) : PositionError(i)

LocateNext ==
    \/ LocationEffect
    \/ ProviderSucceeded
    \/ ProviderFailed
    \/ Remount

SpecLocate == LocateInit /\ [][LocateNext]_vars

MaxClock == 2

\* calls of handleMarkAsFixed that run on after their panel was left
MaxOrphans == 1

\* status: 'resolved'
FixedStatus == "resolved"

\* if (!selectedReport || !fixImage)
MissingInput(selected, image) == selected = Null \/ image = Null

\* the photo of the fix
AdminFiles == {"fixed.jpg"}

(* ------------------------------ actions -------------------------------- *)
AdminInit ==
    /\ BaseIdle
    /\ FetchIdle
    /\ GeoIdle
    /\ AdminStart
    /\ SessionsIdle
    /\ DistIdle
    /\ ToastIdle
    /\ DisplayIdle
    /\ ReportsIdle
    /\ MapIdle
    /\ FixIdle
    /\ SubmitIdle
    /\ ApiIdle
    /\ ObjIdle

\* loadReports is called by the panel of moderator m: setLoading(true) and
\* the select is sent
LoadReports(m) ==
    /\ adminLoading' = [adminLoading EXCEPT ![m] = TRUE]
    /\ adminLoad' = [adminLoad EXCEPT ![m] = LoadSent]

\* a call of handleMarkAsFixed that still has a request to send
FixInFlight(call) == call.stage \in {"getUser", "upload", "update"}

\* the panel of moderator m is left (Back, Public Site) and opened again:
\* a new instance of the component with its initial state, whose mount
\* effect calls checkAdminAndLoadReports.  What the old instance sets is
\* not on the screen, but its call of handleMarkAsFixed runs on
OpenPanel(m) ==
    /\ FixInFlight(adminFix[m]) => Len(adminOrphans) < MaxOrphans
    /\ adminOrphans' = IF FixInFlight(adminFix[m])
                       THEN Append(adminOrphans, adminFix[m])
                       ELSE adminOrphans
    /\ adminAuth' = [adminAuth EXCEPT ![m] = "session"]
    /\ adminReports' = [adminReports EXCEPT ![m] = NoReports]
    /\ adminLoading' = [adminLoading EXCEPT ![m] = TRUE]
    /\ adminLoad' = [adminLoad EXCEPT ![m] = NoLoad]
    /\ selectedReport' = [selectedReport EXCEPT ![m] = Null]
    /\ adminImage' = [adminImage EXCEPT ![m] = Null]
    /\ adminSubmitting' = [adminSubmitting EXCEPT ![m] = FALSE]
    /\ adminFix' = [adminFix EXCEPT ![m] = NoFix]
    /\ UNCHANGED <<dbStatus, dbFixedAt, adminClock>>
    /\ UNCHANGED outsideAdmin

\* getSession() returns: without a session navigate('/auth') and return,
\* otherwise the role select is awaited
SessionReturns(m, session) ==
    /\ adminAuth[m] = "session"
    /\ adminAuth' = [adminAuth EXCEPT
                        ![m] = IF session THEN "role" ELSE "signed out"]
    /\ UNCHANGED <<dbStatus, dbFixedAt, adminClock, adminReports,
                   adminLoading, adminLoad, selectedReport, adminImage,
                   adminSubmitting, adminFix, adminOrphans>>
    /\ UNCHANGED outsideAdmin

\* the role select returns: without an admin role a toast, navigate('/')
\* and return; otherwise loadReports() is called
RoleReturns(m, isAdmin) ==
    /\ adminAuth[m] = "role"
    /\ IF isAdmin
       THEN /\ adminAuth' = [adminAuth EXCEPT ![m] = "done"]
            /\ LoadReports(m)
       ELSE /\ adminAuth' = [adminAuth EXCEPT ![m] = "denied"]
            /\ UNCHANGED <<adminLoading, adminLoad>>
    /\ UNCHANGED <<dbStatus, dbFixedAt, adminClock, adminReports,
                   selectedReport, adminImage, adminSubmitting, adminFix,
                   adminOrphans>>
    /\ UNCHANGED outsideAdmin

\* what the select answers: an error, no body, or the rows of the table
SelectAnswers == {"error", "null", "rows"}

\* the table serves the select of moderator m: the rows as they are now
SelectServed(m, answer) ==
    /\ adminLoad[m].stage = "sent"
    /\ adminLoad' =
          [adminLoad EXCEPT
              ![m] = [stage |-> "served", error |-> answer = "error",
                      data |-> IF answer = "rows" THEN dbStatus
                                                  ELSE NoReports]]
    /\ UNCHANGED <<dbStatus, dbFixedAt, adminClock, adminReports,
                   adminLoading, selectedReport, adminImage,
                   adminSubmitting, adminFix>>
    /\ UNCHANGED <<adminAuth, adminOrphans>>
    /\ UNCHANGED outsideAdmin

\* the await of loadReports returns: an error is toasted and the list
\* kept, otherwise setReports(data || []); setLoading(false)
LoadReportsReturns(m) ==
    /\ adminLoad[m].stage = "served"
    /\ adminReports' = IF adminLoad[m].error THEN adminReports
                       ELSE [adminReports EXCEPT ![m] = adminLoad[m].data]
    /\ adminLoading' = [adminLoading EXCEPT ![m] = FALSE]
    /\ adminLoad' = [adminLoad EXCEPT ![m] = NoLoad]
    /\ UNCHANGED <<dbStatus, dbFixedAt, adminClock, selectedReport,
                   adminImage, adminSubmitting, adminFix>>
    /\ UNCHANGED <<adminAuth, adminOrphans>>
    /\ UNCHANGED outsideAdmin

\* if (loading) return the spinner: neither the list nor the fix form is
\* on the screen
ListShown(m) == ~adminLoading[m] /\ selectedReport[m] = Null
FormShown(m) == ~adminLoading[m] /\ selectedReport[m] # Null

\* the button Mark as Fixed of a report the list shows as pending
SelectReport(m, r) ==
    /\ ListShown(m)
    /\ adminReports[m][r] = "pending"
    /\ selectedReport' = [selectedReport EXCEPT ![m] = r]
    /\ UNCHANGED <<dbStatus, dbFixedAt, adminClock, adminReports,
                   adminLoading, adminLoad, adminImage, adminSubmitting,
                   adminFix>>
    /\ UNCHANGED <<adminAuth, adminOrphans>>
    /\ UNCHANGED outsideAdmin

\* the button Back: setSelectedReport(null)
Back(m) ==
    /\ FormShown(m)
    /\ selectedReport' = [selectedReport EXCEPT ![m] = Null]
    /\ UNCHANGED <<dbStatus, dbFixedAt, adminClock, adminReports,
                   adminLoading, adminLoad, adminImage, adminSubmitting,
                   adminFix>>
    /\ UNCHANGED <<adminAuth, adminOrphans>>
    /\ UNCHANGED outsideAdmin

\* handleImageSelect(file): setFixImage(file)
SelectImage(m, file) ==
    /\ FormShown(m)
    /\ adminImage' = [adminImage EXCEPT ![m] = file]
    /\ UNCHANGED <<dbStatus, dbFixedAt, adminClock, adminReports,
                   adminLoading, adminLoad, selectedReport, adminSubmitting,
                   adminFix>>
    /\ UNCHANGED <<adminAuth, adminOrphans>>
    /\ UNCHANGED outsideAdmin

\* a call of moderator m ends in the catch block (an error toast), then
\* finally { setSubmitting(false); }
FixThrows(m) ==
    /\ adminSubmitting' = [adminSubmitting EXCEPT ![m] = FALSE]
    /\ adminFix' = [adminFix EXCEPT ![m] = NoFix]
    /\ UNCHANGED <<dbStatus, dbFixedAt, adminClock, adminReports,
                   adminLoading, adminLoad, selectedReport, adminImage>>

\* the button of the fix form, disabled={!fixImage || submitting}, calls
\* handleMarkAsFixed: without a report or a photo it toasts and returns
\* (no call of the button gets there); otherwise setSubmitting(true) and
\* getUser() is awaited.  The call keeps the selectedReport of the render
\* it was made from.
MarkAsFixed(m) ==
    /\ FormShown(m)
    /\ adminImage[m] # Null
    /\ ~adminSubmitting[m]
    /\ IF MissingInput(selectedReport[m], adminImage[m])
       THEN UNCHANGED <<adminSubmitting, adminFix>>
       ELSE /\ adminSubmitting' = [adminSubmitting EXCEPT ![m] = TRUE]
            /\ adminFix' = [adminFix EXCEPT
                               ![m] = [NoFix EXCEPT
                                          !.stage = "getUser",
                                          !.report = selectedReport[m]]]
    /\ UNCHANGED <<dbStatus, dbFixedAt, adminClock, adminReports,
                   adminLoading, adminLoad, selectedReport, adminImage>>
    /\ UNCHANGED <<adminAuth, adminOrphans>>
    /\ UNCHANGED outsideAdmin

\* getUser() returns: if (!user) throw; otherwise the upload is awaited
FixGetUserReturns(m, signedIn) ==
    /\ adminFix[m].stage = "getUser"
    /\ IF signedIn
       THEN /\ adminFix' = [adminFix EXCEPT ![m].stage = "upload"]
            /\ UNCHANGED <<dbStatus, dbFixedAt, adminClock, adminReports,
                           adminLoading, adminLoad, selectedReport,
                           adminImage, adminSubmitting>>
       ELSE FixThrows(m)
    /\ UNCHANGED <<adminAuth, adminOrphans>>
    /\ UNCHANGED outsideAdmin

\* the upload returns: if (uploadError) throw; otherwise the update is
\* built with fixed_at: new Date() and awaited
FixUploadReturns(m, uploadError) ==
    /\ adminFix[m].stage = "upload"
    /\ IF uploadError
       THEN FixThrows(m)
       ELSE /\ adminClock < MaxClock
            /\ adminClock' = adminClock + 1
            /\ adminFix' = [adminFix EXCEPT ![m].stage = "update",
                                            ![m].at = adminClock']
            /\ UNCHANGED <<dbStatus, dbFixedAt, adminReports, adminLoading,
                           adminLoad, selectedReport, adminImage,
                           adminSubmitting>>
    /\ UNCHANGED <<adminAuth, adminOrphans>>
    /\ UNCHANGED outsideAdmin

\* the table serves the update of moderator m: with no error the row with
\* the id of the report the call captured is written
UpdateServed(m, updateError) ==
    /\ adminFix[m].stage = "update"
    /\ adminFix' = [adminFix EXCEPT ![m].stage = "updated",
                                    ![m].error = updateError]
    /\ LET r == adminFix[m].report
       IN  IF ~updateError
           THEN /\ dbStatus' = [dbStatus EXCEPT ![r] = FixedStatus]
                /\ dbFixedAt' = [dbFixedAt EXCEPT ![r] = adminFix[m].at]
           ELSE UNCHANGED <<dbStatus, dbFixedAt>>
    /\ UNCHANGED <<adminClock, adminReports, adminLoading, adminLoad,
                   selectedReport, adminImage, adminSubmitting>>
    /\ UNCHANGED <<adminAuth, adminOrphans>>
    /\ UNCHANGED outsideAdmin

\* the await of the update returns: if (updateError) throw; otherwise the
\* form is reset, loadReports() is called and not awaited; finally
FixUpdateReturns(m) ==
    /\ adminFix[m].stage = "updated"
    /\ IF adminFix[m].error
       THEN FixThrows(m)
       ELSE /\ selectedReport' = [selectedReport EXCEPT ![m] = Null]
            /\ adminImage' = [adminImage EXCEPT ![m] = Null]
            /\ LoadReports(m)
            /\ adminSubmitting' = [adminSubmitting EXCEPT ![m] = FALSE]
            /\ adminFix' = [adminFix EXCEPT ![m] = NoFix]
            /\ UNCHANGED <<dbStatus, dbFixedAt, adminClock, adminReports>>
    /\ UNCHANGED <<adminAuth, adminOrphans>>
    /\ UNCHANGED outsideAdmin

\* call i of a panel that was left, at getUser(): if (!user) throw, and
\* what the catch and finally blocks set is not on the screen
OrphanGetUserReturns(i, signedIn) ==
    /\ adminOrphans[i].stage = "getUser"
    /\ adminOrphans' = IF signedIn
                       THEN [adminOrphans EXCEPT ![i].stage = "upload"]
                       ELSE WithoutCall(adminOrphans, i)
    /\ UNCHANGED <<dbStatus, dbFixedAt, adminClock, adminReports,
                   adminLoading, adminLoad, selectedReport, adminImage,
                   adminSubmitting, adminFix, adminAuth>>
    /\ UNCHANGED outsideAdmin

\* call i of a panel that was left, at the upload
OrphanUploadReturns(i, uploadError) ==
    /\ adminOrphans[i].stage = "upload"
    /\ IF uploadError
       THEN /\ adminOrphans' = WithoutCall(adminOrphans, i)
            /\ UNCHANGED adminClock
       ELSE /\ adminClock < MaxClock
            /\ adminClock' = adminClock + 1
            /\ adminOrphans' = [adminOrphans EXCEPT
                                   ![i].stage = "update",
                                   ![i].at = adminClock']
    /\ UNCHANGED <<dbStatus, dbFixedAt, adminReports, adminLoading,
                   adminLoad, selectedReport, adminImage, adminSubmitting,
                   adminFix, adminAuth>>
    /\ UNCHANGED outsideAdmin

\* the table serves the update of call i of a panel that was left; what
\* the call sets after its await is not on the screen
OrphanUpdateServed(i, updateError) ==
    /\ adminOrphans[i].stage = "update"
    /\ adminOrphans' = WithoutCall(adminOrphans, i)
    /\ LET r == adminOrphans[i].report
       IN  IF ~updateError
           THEN /\ dbStatus' = [dbStatus EXCEPT ![r] = FixedStatus]
                /\ dbFixedAt' = [dbFixedAt EXCEPT
                                    ![r] = adminOrphans[i].at]
           ELSE UNCHANGED <<dbStatus, dbFixedAt>>
    /\ UNCHANGED <<adminClock, adminReports, adminLoading, adminLoad,
                   selectedReport, adminImage, adminSubmitting, adminFix,
                   adminAuth>>
    /\ UNCHANGED outsideAdmin

SessionAnswered ==
    \E m \in Moderators, session \in BOOLEAN : SessionReturns(m, session)

RoleAnswered ==
    \E m \in Moderators, isAdmin \in BOOLEAN : RoleReturns(m, isAdmin)

OrphanUserAnswered ==
    \E i \in 1..Len(adminOrphans), signedIn \in BOOLEAN :
        OrphanGetUserReturns(i, signedIn)

OrphanUploadAnswered ==
    \E i \in 1..Len(adminOrphans), uploadError \in BOOLEAN :
        OrphanUploadReturns(i, uploadError)

OrphanUpdateAnswered ==
    \E i \in 1..Len(adminOrphans), updateError \in BOOLEAN :
        OrphanUpdateServed(i, updateError)

PanelOpened == \E m \in Moderators : OpenPanel(m)

SelectAnswered ==
    \E m \in Moderators, answer \in SelectAnswers : SelectServed(m, answer)

ListLoaded == \E m \in Moderators : LoadReportsReturns(m)

ReportOpened == \E m \in Moderators, r \in ReportIds : SelectReport(m, r)

BackPressed == \E m \in Moderators : Back(m)

PhotoTaken == \E m \in Moderators, file \in AdminFiles : SelectImage(m, file)

FixConfirmed == \E m \in Moderators : MarkAsFixed(m)

UserAnswered ==
    \E m \in Moderators, signedIn \in BOOLEAN : FixGetUserReturns(m, signedIn)

UploadAnswered ==
    \E m \in Moderators, uploadError \in BOOLEAN :
        FixUploadReturns(m, uploadError)

UpdateAnswered ==
    \E m \in Moderators, updateError \in BOOLEAN :
        UpdateServed(m, updateError)

FixReturned == \E m \in Moderators : FixUpdateReturns(m)

AdminNext ==
    \/ PanelOpened
    \/ SessionAnswered
    \/ RoleAnswered
    \/ SelectAnswered
    \/ ListLoaded
    \/ ReportOpened
    \/ BackPressed
    \/ PhotoTaken
    \/ FixConfirmed
    \/ UserAnswered
    \/ UploadAnswered
    \/ UpdateAnswered
    \/ FixReturned
    \/ OrphanUserAnswered
    \/ OrphanUploadAnswered
    \/ OrphanUpdateAnswered

SpecAdmin == AdminInit /\ [][AdminNext]_vars

(* ------------------------------ claims --------------------------------- *)
\* the calls of handleMarkAsFixed in progress
FixCalls ==
    {adminFix[m] : m \in Moderators}
       \cup {adminOrphans[i] : i \in 1..Len(adminOrphans)}

\* C23: a report, pending at first, becomes resolved only by the moderation
\* action and never leaves resolved; fixed_at is written only by the
\* step that takes the report from pending to resolved, also when two
\* moderators who both opened the pending report confirm one after the
\* other.
C23_ResolvedOnceFixedAtOnce ==
    [][ \A r \in ReportIds :
          /\ (dbStatus[r] # FixedStatus /\ dbStatus'[r] = FixedStatus)
                => \E call \in FixCalls :
                      call.stage = "update" /\ call.report = r
          /\ dbStatus[r] = FixedStatus => dbStatus'[r] = FixedStatus
          /\ dbFixedAt'[r] # dbFixedAt[r]
                => (dbStatus[r] = "pending" /\ dbStatus'[r] = FixedStatus)
      ]_vars

\* C28: a report the admin panel marked as fixed carries the status that
\* the route scorer leaves out of the score and that the UPDATE callback
\* of the notifier takes for the resolved state.
C28_FixedIsResolvedEverywhere ==
    \A r \in ReportIds :
       dbFixedAt[r] # 0 =>
          /\ IsFixed(ScoredHazard(dbStatus[r], VIGAN_CENTER))
          /\ IsResolution(OldRecord("pending"),
                          NewRecord(r, dbStatus[r], VIGAN_CENTER))

(* --------------- useHazardNotifications in two sessions (5) ------------ *)
\* mutant: one set at module level serves every instance of the hook
SessionRef_Shared(sets, s) == UNION {sets[t] : t \in Sessions}

\* useRef: processedHazards.current of the instance of session s
SessionRef(sets, s) == sets[s]

(* ------------------------------ actions -------------------------------- *)
SessionsInit ==
    /\ BaseIdle
    /\ FetchIdle
    /\ GeoIdle
    /\ AdminStart
    /\ DistIdle
    /\ ToastIdle
    /\ DisplayIdle
    /\ ReportsIdle
    /\ MapIdle
    /\ FixIdle
    /\ SubmitIdle
    /\ ApiIdle
    /\ ObjIdle
    /\ sessionLocation \in [Sessions -> UserLocations]
    /\ SessionsStart

\* the change feed delivers an INSERT to the channel of session s: the
\* INSERT callback of that instance runs
SessionInsert(s, id, coords) ==
    LET newHazard == NewRecord(id, "pending", coords)
        processed == SessionRef(sessionSets, s)
        outcome == InsertOutcome(processed, sessionLocation[s], newHazard)
    IN  /\ sessionSets' =
              [sessionSets EXCEPT ![s] = InsertProcessed(processed, newHazard)]
        /\ sessionToasts' =
              IF outcome = "shown"
              THEN [sessionToasts EXCEPT ![s][id] = @ + 1]
              ELSE sessionToasts
        /\ sessionDelivered' = [sessionDelivered EXCEPT ![s] = @ \cup {id}]
        /\ sessionLast' = [session |-> s, id |-> id, outcome |-> outcome]
        /\ UNCHANGED sessionLocation
        /\ UNCHANGED outsideSessions

SessionsNext ==
    \E s \in Sessions, id \in HazardIds, coords \in HazardCoords :
        SessionInsert(s, id, coords)

SpecSessions == SessionsInit /\ [][SessionsNext]_vars

(* ------------------------------ claims --------------------------------- *)
\* C25: an INSERT event processed in one session leaves the set of every
\* other session as it is, and whether it is a duplicate there depends
\* only on the events that session itself has processed.
C25_SessionsIsolated ==
    [][ \A s \in Sessions :
          sessionLast'.session = s =>
             /\ \A t \in Sessions \ {s} : sessionSets'[t] = sessionSets[t]
             /\ sessionLast'.outcome = "dup"
                   <=> sessionLast'.id \in sessionDelivered[s]
      ]_vars

\* session A shows the toast of a hazard that session B has already
\* processed and shown
C25_Witness ==
    /\ sessionLast.session = "A"
    /\ sessionLast.outcome = "shown"
    /\ sessionLast.id \in sessionSets["B"]
    /\ sessionToasts["B"][sessionLast.id] = 1
    /\ sessionToasts["A"][sessionLast.id] = 1

(* ---------------------- GeoMetric: symmetry (4.1) ---------------------- *)
\* the coordinates of the model and two points about 50 km to the east,
\* at other latitudes
DistPoints ==
    KnownPoints \cup {Coord(178247, 1207869), Coord(173247, 1207869)}

(* ------------------------------ actions -------------------------------- *)
\* two points of the map
DistInit ==
    /\ BaseIdle
    /\ FetchIdle
    /\ GeoIdle
    /\ AdminStart
    /\ SessionsIdle
    /\ ToastIdle
    /\ DisplayIdle
    /\ ReportsIdle
    /\ MapIdle
    /\ FixIdle
    /\ SubmitIdle
    /\ ApiIdle
    /\ ObjIdle
    /\ distFrom \in DistPoints
    /\ distTo \in DistPoints
    /\ distThere = NaN
    /\ distBack = NaN
    /\ distSelf = NaN
    /\ distPc = "called"

\* the distance is computed both ways, and from the first point to itself
CalculateDistances ==
    /\ distPc = "called"
    /\ distThere' = calculateDistance(distFrom, distTo)
    /\ distBack' = calculateDistance(distTo, distFrom)
    /\ distSelf' = calculateDistance(distFrom, distFrom)
    /\ distPc' = "returned"
    /\ UNCHANGED <<distFrom, distTo>>
    /\ UNCHANGED outsideDist

DistNext == CalculateDistances

SpecDist == DistInit /\ [][DistNext]_vars

(* ------------------------------ claims --------------------------------- *)
\* C26: the distance from A to B is the distance from B to A, the
\* distance from A to A is 0, and no distance is negative.
C26_DistanceSymmetric ==
    distPc = "returned" =>
       /\ distThere = distBack
       /\ distSelf = 0
       /\ distThere >= 0

\* two points at different latitudes and longitudes, a positive distance
C26_Witness ==
    /\ distPc = "returned"
    /\ distFrom.lat # distTo.lat
    /\ distFrom.lon # distTo.lon
    /\ distThere > 0
    /\ distThere = distBack

(* ------------- ProximityNotifier: the "new hazard" toast (4.5) --------- *)
MaxDescription == 82

\* substring(0, 80) and length > 80
DESCRIPTION_LIMIT == 80

\* a description of n characters; character i is the number i
Description(n) == [i \in 1..n |-> i]

\* payload.new of an INSERT: name is null, empty or a text
ToastHazards ==
    {[name |-> name, hazard_type |-> type, description |-> Description(n)] :
        name \in {Null, "", "Fallen tree"}, type \in {"flood", "fire"},
        n \in 0..MaxDescription}

\* distances within the radius, in metres: the ends, values next to a
\* tie, ties whose double is exact (250, 1250), above the tie (50) and
\* below it (150, 4850)
ToastDistances ==
    {0, 35, 49, 50, 150, 250, 1250, 4850, 4999, NOTIFICATION_RADIUS_KM * 1000}

\* newHazard.name || newHazard.hazard_type
DisplayName(hazard) ==
    IF hazard.name = Null \/ hazard.name = "" THEN hazard.hazard_type
    ELSE hazard.name

\* description.substring(0, 80)
Substring(text, end) == SubSeq(text, 1, Min(end, Len(text)))

\* mutant: a description of exactly 80 characters gets the ellipsis too
NeedsEllipsis_FromLimit(text) == Len(text) >= DESCRIPTION_LIMIT

\* description.length > 80 ? '...' : ''
NeedsEllipsis(text) == Len(text) > DESCRIPTION_LIMIT

\* the whole numbers of metres up to the radius that lie on a tie
\* (x.x5 km) and whose binary double (metres / 1000) is below the tie
DoubleBelowTie ==
    {150, 350, 850, 950, 1150, 1450, 1650, 1950, 2050, 2150,
     2550, 2650, 3050, 3150, 3550, 3650, 4050, 4350, 4550, 4850}

\* distance.toFixed(1), in tenths of a kilometre: the nearest tenth to the
\* double, the larger tenth when the double is exactly on the tie
ToFixed1(metres) ==
    IF metres \in DoubleBelowTie THEN metres \div 100
    ELSE (metres + 50) \div 100

\* the arguments of toast.warning: the title carries the distance, the
\* description the display name, " - ", the text and the ellipsis
ToastContent(hazard, distance) ==
    [km10 |-> ToFixed1(distance),
     name |-> DisplayName(hazard),
     text |-> Substring(hazard.description, DESCRIPTION_LIMIT),
     ellipsis |-> NeedsEllipsis(hazard.description)]

(* ------------------------------ actions -------------------------------- *)
\* the INSERT callback found a new hazard within the radius
ToastInit ==
    /\ BaseIdle
    /\ FetchIdle
    /\ GeoIdle
    /\ AdminStart
    /\ SessionsIdle
    /\ DistIdle
    /\ DisplayIdle
    /\ ReportsIdle
    /\ MapIdle
    /\ FixIdle
    /\ SubmitIdle
    /\ ApiIdle
    /\ ObjIdle
    /\ toastHazard \in ToastHazards
    /\ toastDistance \in ToastDistances
    /\ toastShown = Null
    /\ toastPc = "called"

\* toast.warning(...)
ToastWarning ==
    /\ toastPc = "called"
    /\ toastShown' = ToastContent(toastHazard, toastDistance)
    /\ toastPc' = "shown"
    /\ UNCHANGED <<toastHazard, toastDistance>>
    /\ UNCHANGED outsideToast

ToastNext == ToastWarning

SpecToast == ToastInit /\ [][ToastNext]_vars

(* ------------------------------ claims --------------------------------- *)
\* C27: the toast of a new hazard carries the name of the hazard, or its
\* hazard type when the name is empty, the distance computed, and the
\* first 80 characters of the description, followed by an ellipsis
\* exactly when the description has more than 80 characters.
C27_ToastContent ==
    toastPc = "shown" =>
       LET description == toastHazard.description
           n == Len(description)
       IN  /\ toastShown.name =
                 (IF toastHazard.name \in {Null, ""}
                  THEN toastHazard.hazard_type ELSE toastHazard.name)
           /\ toastShown.km10 * 100 - 50 <= toastDistance
           /\ toastDistance <= toastShown.km10 * 100 + 50
           /\ Len(toastShown.text) = (IF n > 80 THEN 80 ELSE n)
           /\ \A i \in 1..Len(toastShown.text) :
                 toastShown.text[i] = description[i]
           /\ toastShown.ellipsis <=> n > 80

\* a hazard without a name and with 81 characters of description: the
\* type, 80 characters and the ellipsis
C27_Witness ==
    /\ toastPc = "shown"
    /\ toastHazard.name = ""
    /\ toastShown.name = toastHazard.hazard_type
    /\ Len(toastHazard.description) = 81
    /\ Len(toastShown.text) = 80
    /\ toastShown.ellipsis
    /\ toastDistance = 1250

(* ---------------- MapView: the scores on the screen (4.3) -------------- *)
\* scores the scorer returns: the ends of the range and the limits of the
\* colour bands
ScoreValues == {0, 45, 50, 79, 80, 100}

\* routeSafetyScores[route.id] || 100
OrDefault(score) == IF score = 0 THEN 100 ELSE score

\* score >= 80 ? success : score >= 50 ? warning : critical
Band(score) ==
    IF score >= 80 THEN "success"
    ELSE IF score >= 50 THEN "warning"
    ELSE "critical"

\* Object.entries(routeSafetyScores).every(([id, score]) =>
\*    id === route.id || score <= safetyScore)
isSafest(scores, r, shown) ==
    \A id \in RouteIds : id = r \/ scores[id] <= shown

\* what the route list shows for route r: the n/100 label, the width and
\* the colour of the bar, the Safest badge
ListEntry(scores, r) ==
    LET shown == OrDefault(scores[r])
    IN  [label |-> shown,
         width |-> shown,
         band |-> Band(shown),
         safest |-> isSafest(scores, r, shown) /\ shown >= 80]

\* what the popup of the polyline of route r shows: the score and the
\* safetyText of its band
RoutePopup(scores, r) ==
    LET shown == OrDefault(scores[r])
    IN  [popup |-> shown, text |-> Band(shown)]

\* MapView has rendered at least once
Rendered == \E r \in RouteIds : routeList[r] # NoEntry

\* calculateSafety assigns only when a score differs
Assigned(object, scores) ==
    IF \E key \in RouteIds : object[key] # scores[key] THEN scores
    ELSE object

MaxStores == 1
MaxStaleImports == 1

(* ------------------------------ actions -------------------------------- *)
\* MapView is mounted: the memo holds the default scores, nothing is
\* rendered yet
DisplayInit ==
    /\ BaseIdle
    /\ FetchIdle
    /\ GeoIdle
    /\ AdminStart
    /\ SessionsIdle
    /\ DistIdle
    /\ ToastIdle
    /\ DisplayIdle
    /\ ReportsIdle
    /\ MapIdle
    /\ FixIdle
    /\ SubmitIdle
    /\ ApiIdle
    /\ ObjIdle

\* MapView renders (the first render, or a state was set: a route was
\* clicked, reports arrived): the route list is built from the score
\* object as it is now
RenderList ==
    /\ routeList' = [r \in RouteIds |-> ListEntry(scoreObject, r)]
    /\ UNCHANGED <<scoreObject, scoreStores, routePopups, mapOnScreen,
                   mapImporting, staleImports>>
    /\ UNCHANGED outsideDisplay

\* the map effect of LeafletMap runs (after the first render, or
\* hazardReports changed): the cleanup of the previous run removes the
\* map that run created, with the polylines and their popups, and does
\* nothing when that run has no map (yet); initMap() awaits the imports
MapEffectRuns ==
    /\ Rendered
    /\ mapImporting => staleImports < MaxStaleImports
    /\ staleImports' = IF mapImporting THEN staleImports + 1
                                       ELSE staleImports
    /\ mapImporting' = TRUE
    /\ IF mapOnScreen = "current"
       THEN /\ mapOnScreen' = "none"
            /\ routePopups' = [r \in RouteIds |-> NoPopup]
       ELSE UNCHANGED <<mapOnScreen, routePopups>>
    /\ UNCHANGED <<scoreObject, scoreStores, routeList>>
    /\ UNCHANGED outsideDisplay

\* the imports of a run resolve (stale: of a run that was cleaned up):
\* L.map('map') throws on a container that has a map, and the run ends in
\* its catch block; otherwise the map of the run is on the screen and
\* fetchRoute is called for every route
MapImportsResolve(stale) ==
    /\ IF stale THEN staleImports > 0 ELSE mapImporting
    /\ staleImports' = IF stale THEN staleImports - 1 ELSE staleImports
    /\ mapImporting' = IF stale THEN mapImporting ELSE FALSE
    /\ mapOnScreen' = IF mapOnScreen # "none" THEN mapOnScreen
                      ELSE IF stale THEN "late" ELSE "current"
    /\ UNCHANGED <<scoreObject, scoreStores, routeList, routePopups>>
    /\ UNCHANGED outsideDisplay

\* a route continuation of the run whose map is on the screen runs after
\* its await fetchRoute: the popup of route r is bound with the score the
\* object holds now
PopupBound(r) ==
    /\ mapOnScreen # "none"
    /\ routePopups[r] = NoPopup
    /\ routePopups' = [routePopups EXCEPT ![r] = RoutePopup(scoreObject, r)]
    /\ UNCHANGED <<scoreObject, scoreStores, routeList, mapOnScreen,
                   mapImporting, staleImports>>
    /\ UNCHANGED outsideDisplay

\* a call of calculateSafety ends: Object.assign(routeSafetyScores,
\* scores) changes the object in place; no state is set, nothing renders
ScoresAssigned(scores) ==
    /\ Rendered
    /\ scoreStores < MaxStores
    /\ scoreStores' = scoreStores + 1
    /\ scoreObject' = Assigned(scoreObject, scores)
    /\ UNCHANGED <<routeList, routePopups, mapOnScreen, mapImporting,
                   staleImports>>
    /\ UNCHANGED outsideDisplay

MapImported == \E stale \in BOOLEAN : MapImportsResolve(stale)

PopupsBuilt == \E r \in RouteIds : PopupBound(r)

SafetyCalculated == \E scores \in [RouteIds -> ScoreValues] : ScoresAssigned(scores)

DisplayNext ==
    \/ RenderList
    \/ MapEffectRuns
    \/ MapImported
    \/ PopupsBuilt
    \/ SafetyCalculated

SpecDisplay == DisplayInit /\ [][DisplayNext]_vars

(* ------------------------------ claims --------------------------------- *)
\* C29: what is shown for a route (popup text, progress bar, n/100 label,
\* colour band, Safest badge) is the score computed for that route, for
\* every score from 0 to 100.
C29_ShownScoreIsComputedScore ==
    \A r \in RouteIds :
       LET score == scoreObject[r]
           band == IF score >= 80 THEN "success"
                   ELSE IF score >= 50 THEN "warning" ELSE "critical"
       IN  /\ routeList[r].band # "none" =>
                 /\ routeList[r].label = score
                 /\ routeList[r].width = score
                 /\ routeList[r].band = band
                 /\ routeList[r].safest =
                       (score >= 80 /\ \A id \in RouteIds :
                                          scoreObject[id] <= score)
           /\ routePopups[r].text # "none" =>
                 /\ routePopups[r].popup = score
                 /\ routePopups[r].text = band

(* ------------- MapView: fetchHazardReports and the change feed ---------- *)
\* data: null of the answer; [] is the table before its first change
NoData == -1
EmptyList == 0

\* setHazardReports(data || [])
DataOrEmpty(data) == IF data = NoData THEN EmptyList ELSE data

\* what a call holds when its await returns: error, or data (the rows as
\* of the version the query read; null when the answer has no body)
QueryAnswers(version) ==
    {[error |-> TRUE, data |-> NoData],
     [error |-> FALSE, data |-> NoData],
     [error |-> FALSE, data |-> version]}

(* ------------------------------ actions -------------------------------- *)
\* MapView is rendered for the first time; no effect has run
ReportsInit ==
    /\ BaseIdle
    /\ FetchIdle
    /\ GeoIdle
    /\ AdminStart
    /\ SessionsIdle
    /\ DistIdle
    /\ ToastIdle
    /\ DisplayIdle
    /\ ReportsIdle
    /\ MapIdle
    /\ FixIdle
    /\ SubmitIdle
    /\ ApiIdle
    /\ ObjIdle

\* fetchHazardReports is called: the request is sent
CallFetch ==
    /\ fetchSeq' = fetchSeq + 1
    /\ fetchStage' = [fetchStage EXCEPT ![fetchSeq + 1] = "sent"]

\* the mount effect: fetchHazardReports(), then the channel is subscribed
MountEffect ==
    /\ fetchSeq = 0
    /\ CallFetch
    /\ UNCHANGED <<tableVersion, fetchData, heldReports, reportsLoading>>
    /\ UNCHANGED outsideReports

\* a row of hazard_reports changes and the callback of the channel runs:
\* fetchHazardReports() again, whatever is still in flight
ChangeFeedEvent ==
    /\ fetchSeq \in 1..(MaxFetches - 1)
    /\ tableVersion' = tableVersion + 1
    /\ CallFetch
    /\ UNCHANGED <<fetchData, heldReports, reportsLoading>>
    /\ UNCHANGED outsideReports

\* the server answers the select of call i from the rows it has then
QueryRuns(i, answer) ==
    /\ fetchStage[i] = "sent"
    /\ fetchStage' = [fetchStage EXCEPT
                         ![i] = IF answer.error THEN "failed" ELSE "rows"]
    /\ fetchData' = [fetchData EXCEPT ![i] = DataOrEmpty(answer.data)]
    /\ UNCHANGED <<tableVersion, fetchSeq, heldReports, reportsLoading>>
    /\ UNCHANGED outsideReports

\* the await of call i returns: if (error) throw error;
\* setHazardReports(data || []); catch: toast.error; finally
\* setLoading(false)
FetchReturns(i) ==
    /\ fetchStage[i] \in {"rows", "failed"}
    /\ heldReports' = IF fetchStage[i] = "rows" THEN fetchData[i]
                                                ELSE heldReports
    /\ reportsLoading' = FALSE
    /\ fetchStage' = [fetchStage EXCEPT
                         ![i] = IF fetchStage[i] = "rows" THEN "done"
                                                          ELSE "thrown"]
    /\ UNCHANGED <<tableVersion, fetchSeq, fetchData>>
    /\ UNCHANGED outsideReports

QueryAnswered ==
    \E i \in FetchCalls, answer \in QueryAnswers(tableVersion) :
        QueryRuns(i, answer)

FetchSettles == \E i \in FetchCalls : FetchReturns(i)

ReportsNext ==
    \/ MountEffect
    \/ ChangeFeedEvent
    \/ QueryAnswered
    \/ FetchSettles

SpecReports == ReportsInit /\ [][ReportsNext]_vars

(* ------------------------------ claims --------------------------------- *)
\* C31: when no call of fetchHazardReports is in flight and the call
\* started last succeeded, the list held is the one that call read.
C31_LatestFetchWins ==
    (/\ fetchSeq > 0
     /\ \A i \in FetchCalls : fetchStage[i] \in {"none", "done", "thrown"}
     /\ fetchStage[fetchSeq] = "done")
       => heldReports = fetchData[fetchSeq]

(* ------------------ LeafletMap: the map effect and its cleanup ---------- *)
\* L.map('map'): the container takes one map at a time
ContainerTaken == \E k \in MapRuns : mapInstance[k] = "live"

\* L.map('map') throws without the container or on a container that has
\* a map already
MapCreated == containerMounted /\ ~ContainerTaken

\* if (mapInstance) { mapInstance.remove(); }
InstanceAfterCleanup(instance) ==
    IF instance = "live" THEN "removed" ELSE instance

\* the cleanup of run k: the markers of the ref are removed and the ref is
\* emptied; the map of the run, if it has one, is removed with its layers
CleanedInstances(k) ==
    [mapInstance EXCEPT ![k] = InstanceAfterCleanup(mapInstance[k])]

CleanedLayers(k) ==
    [routeLayers EXCEPT
        ![k] = IF InstanceAfterCleanup(mapInstance[k]) = "live"
               THEN routeLayers[k] ELSE {}]

\* what run k creates counts as late when its cleanup has run
Late(k, kinds) ==
    IF runCleaned[k] THEN {<<k, kind>> : kind \in kinds} ELSE {}

\* the lengths of the hazardReports prop: no report, or one
ReportCounts == {0, 1}

(* ------------------------------ actions -------------------------------- *)
\* LeafletMap is rendered for the first time
LeafletInit ==
    /\ BaseIdle
    /\ FetchIdle
    /\ GeoIdle
    /\ AdminStart
    /\ SessionsIdle
    /\ DistIdle
    /\ ToastIdle
    /\ DisplayIdle
    /\ ReportsIdle
    /\ MapIdle
    /\ FixIdle
    /\ SubmitIdle
    /\ ApiIdle
    /\ ObjIdle

\* the effect runs (on mount, or a dependency changed: the cleanup of the
\* previous run first) with the hazardReports of this render: initMap() is
\* called and awaits import('leaflet')
MapEffect(reports) ==
    /\ containerMounted
    /\ mapEffectRun < MaxMapRuns
    /\ LET prev == mapEffectRun
           run == mapEffectRun + 1
       IN  /\ mapEffectRun' = run
           /\ runStage' = [runStage EXCEPT ![run] = "importing"]
           /\ runReports' = [runReports EXCEPT ![run] = reports]
           /\ IF prev = 0
              THEN UNCHANGED <<runCleaned, mapInstance, routeLayers,
                               hazardMarkers>>
              ELSE /\ runCleaned' = [runCleaned EXCEPT ![prev] = TRUE]
                   /\ mapInstance' = CleanedInstances(prev)
                   /\ routeLayers' = CleanedLayers(prev)
                   /\ hazardMarkers' = {}
    /\ UNCHANGED <<containerMounted, routePending, createdLate>>
    /\ UNCHANGED outsideMap

\* LeafletMap is unmounted: the cleanup of the last run, the container goes
MapUnmount ==
    /\ containerMounted
    /\ mapEffectRun > 0
    /\ containerMounted' = FALSE
    /\ runCleaned' = [runCleaned EXCEPT ![mapEffectRun] = TRUE]
    /\ mapInstance' = CleanedInstances(mapEffectRun)
    /\ routeLayers' = CleanedLayers(mapEffectRun)
    /\ hazardMarkers' = {}
    /\ UNCHANGED <<mapEffectRun, runStage, runReports, routePending,
                   createdLate>>
    /\ UNCHANGED outsideMap

\* the imports of run k resolve: mapInstance = L.map('map'), the location
\* marker, tiles, danger zone and safe zones are added, fetchRoute is
\* called for every route and initMap awaits Promise.all; an exception is
\* caught and logged
ImportsResolve(k) ==
    /\ runStage[k] = "importing"
    /\ IF MapCreated
       THEN /\ mapInstance' = [mapInstance EXCEPT ![k] = "live"]
            /\ runStage' = [runStage EXCEPT ![k] = "routing"]
            /\ routePending' = [routePending EXCEPT ![k] = RouteIds]
            /\ createdLate' = createdLate \cup Late(k, {"map"})
       ELSE /\ runStage' = [runStage EXCEPT ![k] = "failed"]
            /\ UNCHANGED <<mapInstance, routePending, createdLate>>
    /\ UNCHANGED <<mapEffectRun, containerMounted, runCleaned, runReports,
                   routeLayers, hazardMarkers>>
    /\ UNCHANGED outsideMap

\* fetchRoute of route r of run k resolves: the polyline is added to
\* mapInstance and stored in routeLayers.current.  Adding to a removed map
\* is Leaflet's business (added: it works or it throws); when it throws
\* the promise of the route rejects, Promise.all rejects and the catch of
\* initMap logs, the other routes still get their answers.
RouteResolves(k, r, added) ==
    /\ r \in routePending[k]
    /\ added \/ mapInstance[k] = "removed"
    /\ routePending' = [routePending EXCEPT ![k] = routePending[k] \ {r}]
    /\ IF added
       THEN /\ routeLayers' =
                  [routeLayers EXCEPT
                      ![k] = IF mapInstance[k] = "live"
                             THEN routeLayers[k] \cup {r} ELSE routeLayers[k]]
            /\ createdLate' = createdLate \cup Late(k, {"routes"})
            /\ UNCHANGED runStage
       ELSE /\ runStage' = [runStage EXCEPT
                                ![k] = IF runStage[k] = "routing"
                                       THEN "failed" ELSE runStage[k]]
            /\ UNCHANGED <<routeLayers, createdLate>>
    /\ UNCHANGED <<mapEffectRun, containerMounted, runCleaned, runReports,
                   mapInstance, hazardMarkers>>
    /\ UNCHANGED outsideMap

\* Promise.all of run k resolved: hazardReports.forEach adds a marker per
\* report to mapInstance and pushes it to the ref, then setMapLoaded(true);
\* without a report no marker is created; a marker that cannot be added
\* to a removed map throws before the push
MarkersAdded(k, added) ==
    /\ runStage[k] = "routing"
    /\ routePending[k] = {}
    /\ added \/ (mapInstance[k] = "removed" /\ runReports[k] > 0)
    /\ IF added
       THEN /\ runStage' = [runStage EXCEPT ![k] = "loaded"]
            /\ IF runReports[k] > 0
               THEN /\ hazardMarkers' = hazardMarkers \cup {k}
                    /\ createdLate' = createdLate \cup Late(k, {"markers"})
               ELSE UNCHANGED <<hazardMarkers, createdLate>>
       ELSE /\ runStage' = [runStage EXCEPT ![k] = "failed"]
            /\ UNCHANGED <<hazardMarkers, createdLate>>
    /\ UNCHANGED <<mapEffectRun, containerMounted, runCleaned, runReports,
                   mapInstance, routePending, routeLayers>>
    /\ UNCHANGED outsideMap

EffectRun == \E reports \in ReportCounts : MapEffect(reports)

ImportsDone == \E k \in MapRuns : ImportsResolve(k)

RouteDone ==
    \E k \in MapRuns, r \in RouteIds, added \in BOOLEAN :
        RouteResolves(k, r, added)

MarkersDone == \E k \in MapRuns, added \in BOOLEAN : MarkersAdded(k, added)

LeafletNext ==
    \/ EffectRun
    \/ MapUnmount
    \/ ImportsDone
    \/ RouteDone
    \/ MarkersDone

SpecLeaflet == LeafletInit /\ [][LeafletNext]_vars

(* ------------------------------ claims --------------------------------- *)
\* C32: once the cleanup of an effect run has run, the run has no live map,
\* no route layer on a map and no marker in the ref, and it creates none
\* afterwards.
C32_NothingAfterCleanup ==
    \A k \in MapRuns :
       runCleaned[k] =>
          /\ mapInstance[k] # "live"
          /\ routeLayers[k] = {}
          /\ k \notin hazardMarkers
          /\ \A kind \in {"map", "routes", "markers"} :
                <<k, kind>> \notin createdLate

(* ---------------- AdminPanel: handleMarkAsFixed, step by step ----------- *)
FixFiles == {"fixed.jpg"}
FixNoteTexts == {"", "drain cleared"}
FixUsers == {"u1"}

\* `fixes/${selectedReport.id}_${Date.now()}.${fileExt}` and getPublicUrl
PublicUrl(report, image) == <<"fixes", report, image>>

\* fix_notes: fixNotes || null
NotesOrNull(notes) == IF notes = "" THEN Null ELSE notes

\* the row the update writes
FixedRow(call) ==
    [status |-> FixedStatus, fixed_by |-> call.user,
     fix_image_url |-> call.url, fix_notes |-> NotesOrNull(call.notes)]

\* mutant: setSubmitting(false) only at the end of the try block
Finally_OnlyAfterSuccess(failed) == failed

\* finally { setSubmitting(false); }
Finally(failed) == FALSE

(* ------------------------------ actions -------------------------------- *)
\* the admin panel after it loaded the list
FixInit ==
    /\ BaseIdle
    /\ FetchIdle
    /\ GeoIdle
    /\ AdminStart
    /\ SessionsIdle
    /\ DistIdle
    /\ ToastIdle
    /\ DisplayIdle
    /\ ReportsIdle
    /\ MapIdle
    /\ FixIdle
    /\ SubmitIdle
    /\ ApiIdle
    /\ ObjIdle

\* loadReports(): setLoading(true) and the select is sent
FixLoadReports ==
    /\ fixLoading' = TRUE
    /\ fixLoad' = LoadSent

\* the table serves the select: an error, no body, or the rows with the
\* status they have now
FixSelectServed(answer) ==
    /\ fixLoad.stage = "sent"
    /\ fixLoad' = [stage |-> "served", error |-> answer = "error",
                   data |-> IF answer = "rows"
                            THEN [r \in ReportIds |-> fixRows[r].status]
                            ELSE NoReports]
    /\ UNCHANGED <<fixRows, fixList, fixLoading, fixSelected, fixImage,
                   fixNotes, fixSubmitting, fixCall, fixLast>>
    /\ UNCHANGED outsideFix

\* the await of loadReports returns: an error is toasted and the list
\* kept, otherwise setReports(data || []); setLoading(false)
FixLoadReturns ==
    /\ fixLoad.stage = "served"
    /\ fixList' = IF fixLoad.error THEN fixList ELSE fixLoad.data
    /\ fixLoading' = FALSE
    /\ fixLoad' = NoLoad
    /\ UNCHANGED <<fixRows, fixSelected, fixImage, fixNotes, fixSubmitting,
                   fixCall, fixLast>>
    /\ UNCHANGED outsideFix

\* if (loading) return the spinner; if (selectedReport) return the form;
\* otherwise the list
FixListShown == ~fixLoading /\ fixSelected = Null
FixFormShown == ~fixLoading /\ fixSelected # Null

\* "Mark as Fixed" on a report the list shows as pending
OpenReport(r) ==
    /\ FixListShown
    /\ fixList[r] = "pending"
    /\ fixSelected' = r
    /\ UNCHANGED <<fixRows, fixList, fixLoading, fixLoad, fixImage,
                   fixNotes, fixSubmitting, fixCall, fixLast>>
    /\ UNCHANGED outsideFix

\* the Back button: setSelectedReport(null)
BackToList ==
    /\ FixFormShown
    /\ fixSelected' = Null
    /\ UNCHANGED <<fixRows, fixList, fixLoading, fixLoad, fixImage,
                   fixNotes, fixSubmitting, fixCall, fixLast>>
    /\ UNCHANGED outsideFix

\* handleImageSelect(file)
ImageSelect(file) ==
    /\ FixFormShown
    /\ fixImage' = file
    /\ UNCHANGED <<fixRows, fixList, fixLoading, fixLoad, fixSelected,
                   fixNotes, fixSubmitting, fixCall, fixLast>>
    /\ UNCHANGED outsideFix

\* the notes field: setFixNotes(e.target.value)
TypeNotes(text) ==
    /\ FixFormShown
    /\ fixNotes' = text
    /\ UNCHANGED <<fixRows, fixList, fixLoading, fixLoad, fixSelected,
                   fixImage, fixSubmitting, fixCall, fixLast>>
    /\ UNCHANGED outsideFix

\* a call ends in the catch block: the error is logged and toasted, then
\* the finally block runs
FixFails(how) ==
    /\ fixSubmitting' = Finally(TRUE)
    /\ fixCall' = NoCall
    /\ fixLast' = how
    /\ UNCHANGED <<fixRows, fixList, fixLoading, fixLoad, fixSelected,
                   fixImage, fixNotes>>

\* the button of the fix form, disabled={!fixImage || submitting}, calls
\* handleMarkAsFixed: without a report or a photo it toasts and returns
\* (no call of the button gets there); otherwise setSubmitting(true) and
\* getUser() is awaited.  The call keeps the report, the photo and the
\* notes of the render it was made from.
CallMarkAsFixed ==
    /\ FixFormShown
    /\ fixImage # Null
    /\ ~fixSubmitting
    /\ IF MissingInput(fixSelected, fixImage)
       THEN /\ fixLast' = "no photo"
            /\ UNCHANGED <<fixSubmitting, fixCall>>
       ELSE /\ fixSubmitting' = TRUE
            /\ fixCall' = [NoCall EXCEPT !.pc = "getUser",
                                         !.report = fixSelected,
                                         !.image = fixImage,
                                         !.notes = fixNotes]
            /\ fixLast' = "running"
    /\ UNCHANGED <<fixRows, fixList, fixLoading, fixLoad, fixSelected,
                   fixImage, fixNotes>>
    /\ UNCHANGED outsideFix

\* getUser() returns: if (!user) throw; the file name is built and the
\* upload awaited
GetUserReturns(user) ==
    /\ fixCall.pc = "getUser"
    /\ IF user = Null
       THEN FixFails("not authenticated")
       ELSE /\ fixCall' = [fixCall EXCEPT !.pc = "upload", !.user = user]
            /\ UNCHANGED <<fixRows, fixList, fixLoading, fixLoad,
                           fixSelected, fixImage, fixNotes, fixSubmitting,
                           fixLast>>
    /\ UNCHANGED outsideFix

\* the upload returns: if (uploadError) throw; getPublicUrl, and the
\* update is awaited
UploadReturns(uploadError) ==
    /\ fixCall.pc = "upload"
    /\ IF uploadError
       THEN FixFails("upload failed")
       ELSE /\ fixCall' = [fixCall EXCEPT
                              !.pc = "update",
                              !.url = PublicUrl(fixCall.report,
                                                fixCall.image)]
            /\ UNCHANGED <<fixRows, fixList, fixLoading, fixLoad,
                           fixSelected, fixImage, fixNotes, fixSubmitting,
                           fixLast>>
    /\ UNCHANGED outsideFix

\* the table serves the update: with no error the row with the id of the
\* report the call captured is written, whatever its status is
FixUpdateServed(updateError) ==
    /\ fixCall.pc = "update"
    /\ fixCall' = [fixCall EXCEPT !.pc = "updated", !.error = updateError]
    /\ fixRows' = IF updateError THEN fixRows
                  ELSE [fixRows EXCEPT ![fixCall.report] = FixedRow(fixCall)]
    /\ UNCHANGED <<fixList, fixLoading, fixLoad, fixSelected, fixImage,
                   fixNotes, fixSubmitting, fixLast>>
    /\ UNCHANGED outsideFix

\* the await of the update returns: if (updateError) throw; otherwise the
\* form is reset and loadReports() is called and not awaited; finally
UpdateReturns ==
    /\ fixCall.pc = "updated"
    /\ IF fixCall.error
       THEN FixFails("update failed")
       ELSE /\ fixSelected' = Null
            /\ fixImage' = Null
            /\ fixNotes' = ""
            /\ FixLoadReports
            /\ fixSubmitting' = Finally(FALSE)
            /\ fixCall' = NoCall
            /\ fixLast' = "fixed"
            /\ UNCHANGED <<fixRows, fixList>>
    /\ UNCHANGED outsideFix

FixListAnswered == \E answer \in SelectAnswers : FixSelectServed(answer)

FixReportOpened == \E r \in ReportIds : OpenReport(r)

FixPhotoTaken == \E file \in FixFiles : ImageSelect(file)

FixNotesTyped == \E text \in FixNoteTexts : TypeNotes(text)

FixUserAnswered == \E user \in FixUsers \cup {Null} : GetUserReturns(user)

FixUploadAnswered == \E uploadError \in BOOLEAN : UploadReturns(uploadError)

FixUpdateAnswered == \E updateError \in BOOLEAN : FixUpdateServed(updateError)

FixNext ==
    \/ FixListAnswered
    \/ FixLoadReturns
    \/ FixReportOpened
    \/ BackToList
    \/ FixPhotoTaken
    \/ FixNotesTyped
    \/ CallMarkAsFixed
    \/ FixUserAnswered
    \/ FixUploadAnswered
    \/ FixUpdateAnswered
    \/ UpdateReturns

SpecFix == FixInit /\ [][FixNext]_vars

(* ------------------------------ claims --------------------------------- *)
\* a step of handleMarkAsFixed that ends the call
FixEnds == fixLast' # fixLast /\ fixLast' # "running"

\* C34: a step writes a report only as resolved, from a call that holds a
\* photo, a signed-in user and the URL of its uploaded photo, and that
\* call gets no error; a step that ends a call otherwise leaves the rows,
\* the selected report, the photo and the notes as they were; and after
\* every step that ends a call submitting is false.
C34_FixOnlyAfterPhotoUserUpload ==
    [][ /\ fixRows' # fixRows =>
             /\ fixCall.pc = "update"
             /\ fixCall.image # Null
             /\ fixCall.user # Null
             /\ fixCall.url = PublicUrl(fixCall.report, fixCall.image)
             /\ fixRows'[fixCall.report].status = "resolved"
             /\ fixRows'[fixCall.report].fix_image_url = fixCall.url
             /\ ~fixCall'.error
        /\ (FixEnds /\ fixLast' # "fixed") =>
             UNCHANGED <<fixRows, fixSelected, fixImage, fixNotes>>
        /\ FixEnds => fixSubmitting' = FALSE ]_vars

\* a fix failed at the upload after an earlier one had succeeded: the
\* report is still pending and selected, photo and notes are still there
C34_Witness ==
    /\ fixLast = "upload failed"
    /\ fixSelected # Null
    /\ fixRows[fixSelected].status = "pending"
    /\ fixImage # Null
    /\ fixNotes # ""
    /\ ~fixSubmitting
    /\ \E r \in ReportIds : fixRows[r].status = "resolved"

(* ----------------- HazardReport: handleSubmit and the schema ------------ *)
\* a key the object passed to parse does not have
Undefined == [absent |-> TRUE]

\* z.string().trim().min(lo).max(hi): a string whose trimmed length is in
\* lo..hi; a missing key fails with "Required"
TrimmedString(value, lo, hi) ==
    /\ value # Undefined
    /\ value.core >= lo
    /\ value.core <= hi

\* .optional(): a missing key passes
Optional(value, check) == value = Undefined \/ check

\* z.number().min(lo).max(hi)
NumberBetween(value, lo, hi) == value >= lo /\ value <= hi

\* hazardReportSchema (validation.ts lines 3-10) on the object given to
\* parse
hazardReportSchema(input) ==
    /\ TrimmedString(input.name, 1, 100)
    /\ TrimmedString(input.hazard_type, 1, 100)
    /\ TrimmedString(input.description, 10, 2000)
    /\ NumberBetween(input.latitude, -90, 90)
    /\ NumberBetween(input.longitude, -180, 180)
    /\ Optional(input.location_name,
                TrimmedString(input.location_name, 0, 500))

\* location.name || undefined
NameOrUndefined(name) ==
    IF name.core + name.pad = 0 THEN Undefined ELSE name

\* the object handleSubmit gives to parse: it has no name key
ParseInput(form) ==
    [name |-> Undefined,
     hazard_type |-> form.hazardType,
     description |-> form.description,
     latitude |-> form.lat,
     longitude |-> form.lng,
     location_name |-> NameOrUndefined(form.name)]

\* how a call of handleSubmit ends for a form and the answers of getUser,
\* the upload and the insert
SubmitOutcome(form, uploadError, insertError) ==
    IF ~hazardReportSchema(ParseInput(form)) THEN "invalid"
    ELSE IF form.imageFile = Null THEN "no image"
    ELSE IF uploadError THEN "upload failed"
    ELSE IF insertError THEN "insert failed"
    ELSE "inserted"

\* the record of the insert: the trimmed values of parse
InsertedRecord(form, user) ==
    [user_id |-> user,
     image_url |-> <<user, form.imageFile>>,
     hazard_type |-> form.hazardType.core,
     description |-> form.description.core,
     latitude |-> form.lat,
     longitude |-> form.lng]

\* the catch block shows a toast and leaves the form alone
FormAfterCatch(form) == form

\* imageFileSchema (validation.ts lines 12-19): type.startsWith('image/')
\* and size <= 5 * 1024 * 1024
MAX_IMAGE_SIZE == 5 * 1024 * 1024
FileIsImage(file) == file # "notes.txt"
FileSize(file) == IF file = "big.jpg" THEN MAX_IMAGE_SIZE + 1
                  ELSE MAX_IMAGE_SIZE
imageFileSchema(file) == FileIsImage(file) /\ FileSize(file) <= MAX_IMAGE_SIZE

\* !value of a string state: undefined and the empty string are falsy, a
\* string of white space is not
TruthyText(value) == value # Undefined /\ value.core + value.pad > 0

\* the length of n.toFixed(4) for a whole n: sign, digits, point, 4 digits
ToFixed4Length(n) ==
    LET size == IF n < 0 THEN -n ELSE n
    IN  (IF n < 0 THEN 1 ELSE 0)
        + (IF size < 10 THEN 1 ELSE IF size < 100 THEN 2 ELSE 3) + 5

\* `${lat.toFixed(4)}, ${lng.toFixed(4)}`
CoordinateName(lat, lng) ==
    Text(ToFixed4Length(lat) + 2 + ToFixed4Length(lng), 0)

\* data.display_name || `${lat.toFixed(4)}, ${lng.toFixed(4)}`
LocationName(displayName, lat, lng) ==
    IF TruthyText(displayName) THEN displayName
    ELSE CoordinateName(lat, lng)

\* disabled={!imageFile || !hazardType || !description || !location.lat
\* || submitting} of the submit button
SubmitEnabled(form, submitting) ==
    /\ form.imageFile # Null
    /\ TruthyText(form.hazardType)
    /\ TruthyText(form.description)
    /\ form.lat # 0
    /\ ~submitting

(* ------------------------------ actions -------------------------------- *)
SubmitTypes == {Text(0, 2), Text(1, 0), Text(100, 1), Text(101, 0)}
SubmitDescriptions ==
    {Text(9, 3), Text(10, 0), Text(2000, 1), Text(2001, 0)}
SubmitNames == {Text(0, 0), Text(12, 0)}
SubmitFiles == {"hazard.jpg", "big.jpg", "notes.txt"}
SubmitUsers == {Null, "u1"}

\* what the analysis returns for hazard_type and description: a text, or
\* no such key
AnalysisTypes == {Undefined, Text(7, 0)}
AnalysisDescriptions == {Undefined, Text(60, 0)}

\* positions of the reporter, in whole degrees
ReportPositions ==
    {[lat |-> 17, lng |-> 120], [lat |-> 0, lng |-> 0],
     [lat |-> -90, lng |-> -180], [lat |-> 90, lng |-> 180]}

\* display_name of the reverse geocoder: missing, empty, or a text
DisplayNames == {Undefined, Text(0, 0), Text(40, 0)}

MaxAnalyses == 1
MaxSubmits == 2

\* HazardReport after it was mounted
SubmitInit ==
    /\ BaseIdle
    /\ FetchIdle
    /\ GeoIdle
    /\ AdminStart
    /\ SessionsIdle
    /\ DistIdle
    /\ ToastIdle
    /\ DisplayIdle
    /\ ReportsIdle
    /\ MapIdle
    /\ FixIdle
    /\ ApiIdle
    /\ SubmitIdle
    /\ ObjIdle

\* the inputs: setHazardType(e.target.value)
TypeHazardType(text) ==
    /\ reportForm' = [reportForm EXCEPT !.hazardType = text]
    /\ UNCHANGED <<reportSubmitting, reportRows, submitLast, submitCalls,
                   reportAnalyses, reportLocating>>
    /\ UNCHANGED outsideSubmit

\* setDescription(e.target.value)
TypeDescription(text) ==
    /\ reportForm' = [reportForm EXCEPT !.description = text]
    /\ UNCHANGED <<reportSubmitting, reportRows, submitLast, submitCalls,
                   reportAnalyses, reportLocating>>
    /\ UNCHANGED outsideSubmit

\* setLocation({ ...location, name: e.target.value })
TypeLocationName(text) ==
    /\ reportForm' = [reportForm EXCEPT !.name = text]
    /\ UNCHANGED <<reportSubmitting, reportRows, submitLast, submitCalls,
                   reportAnalyses, reportLocating>>
    /\ UNCHANGED outsideSubmit

\* handleImageSelect(file): a file that fails imageFileSchema is toasted
\* and nothing is set; otherwise setImageFile(file) and analyzeImage(file)
\* starts its FileReader (setAnalyzing(true) and, in finally,
\* setAnalyzing(false) run in the same step)
HandleImageSelect(file) ==
    /\ imageFileSchema(file) => Len(reportAnalyses) < MaxAnalyses
    /\ IF imageFileSchema(file)
       THEN /\ reportForm' = [reportForm EXCEPT !.imageFile = file]
            /\ reportAnalyses' = Append(reportAnalyses, "reading")
       ELSE UNCHANGED <<reportForm, reportAnalyses>>
    /\ UNCHANGED <<reportSubmitting, reportRows, submitLast, submitCalls,
                   reportLocating>>
    /\ UNCHANGED outsideSubmit

\* reader.onloadend of call i of analyzeImage: analyze-hazard is invoked
\* and awaited
AnalysisReaderLoaded(i) ==
    /\ reportAnalyses[i] = "reading"
    /\ reportAnalyses' = [reportAnalyses EXCEPT ![i] = "invoking"]
    /\ UNCHANGED <<reportForm, reportSubmitting, reportRows, submitLast,
                   submitCalls, reportLocating>>
    /\ UNCHANGED outsideSubmit

\* the invoke of call i returns: if (error) throw, inside the callback of
\* the reader, where nothing catches it; otherwise
\* setHazardType(data.hazard_type); setDescription(data.description)
AnalysisReturns(i, error, type, description) ==
    /\ reportAnalyses[i] = "invoking"
    /\ reportAnalyses' = WithoutCall(reportAnalyses, i)
    /\ reportForm' = IF error THEN reportForm
                     ELSE [reportForm EXCEPT !.hazardType = type,
                                             !.description = description]
    /\ UNCHANGED <<reportSubmitting, reportRows, submitLast, submitCalls,
                   reportLocating>>
    /\ UNCHANGED outsideSubmit

\* getLocation (its button is disabled while gettingLocation):
\* setGettingLocation(true); without navigator.geolocation a toast and
\* setGettingLocation(false), otherwise getCurrentPosition is called
GetLocation(supported) ==
    /\ reportLocating.stage = "idle"
    /\ reportLocating' = IF supported
                         THEN [reportLocating EXCEPT !.stage = "position"]
                         ELSE reportLocating
    /\ UNCHANGED <<reportForm, reportSubmitting, reportRows, submitLast,
                   submitCalls, reportAnalyses>>
    /\ UNCHANGED outsideSubmit

\* the success callback of getCurrentPosition: the reverse geocoding
\* fetch is awaited
ReportPositionFound(position) ==
    /\ reportLocating.stage = "position"
    /\ reportLocating' = [stage |-> "fetch", lat |-> position.lat,
                          lng |-> position.lng]
    /\ UNCHANGED <<reportForm, reportSubmitting, reportRows, submitLast,
                   submitCalls, reportAnalyses>>
    /\ UNCHANGED outsideSubmit

\* the error callback: a toast and setGettingLocation(false)
ReportPositionFails ==
    /\ reportLocating.stage = "position"
    /\ reportLocating' = NotLocating
    /\ UNCHANGED <<reportForm, reportSubmitting, reportRows, submitLast,
                   submitCalls, reportAnalyses>>
    /\ UNCHANGED outsideSubmit

\* setLocation({ lat, lng, name }); setGettingLocation(false)
LocationCaptured(name) ==
    /\ reportForm' = [reportForm EXCEPT !.lat = reportLocating.lat,
                                        !.lng = reportLocating.lng,
                                        !.name = name]
    /\ reportLocating' = NotLocating

\* the fetch returns: response.json() is awaited; a fetch that throws is
\* caught and the name is built from the coordinates
GeocodeFetchReturns(throws) ==
    /\ reportLocating.stage = "fetch"
    /\ IF throws
       THEN LocationCaptured(CoordinateName(reportLocating.lat,
                                            reportLocating.lng))
       ELSE /\ reportLocating' = [reportLocating EXCEPT !.stage = "json"]
            /\ UNCHANGED reportForm
    /\ UNCHANGED <<reportSubmitting, reportRows, submitLast, submitCalls,
                   reportAnalyses>>
    /\ UNCHANGED outsideSubmit

\* response.json() returns: the name is display_name or the coordinates;
\* a body that is no JSON throws to the same catch block
GeocodeJsonReturns(throws, displayName) ==
    /\ reportLocating.stage = "json"
    /\ LocationCaptured(IF throws
                        THEN CoordinateName(reportLocating.lat,
                                            reportLocating.lng)
                        ELSE LocationName(displayName, reportLocating.lat,
                                          reportLocating.lng))
    /\ UNCHANGED <<reportSubmitting, reportRows, submitLast, submitCalls,
                   reportAnalyses>>
    /\ UNCHANGED outsideSubmit

\* handleSubmit, called by the submit button, from the call to the end of
\* its finally block: parse is its first statement and the object it is
\* given has no name, so every call ends before the first await
HandleSubmit(user, uploadError, insertError) ==
    LET outcome == SubmitOutcome(reportForm, uploadError, insertError)
    IN  /\ SubmitEnabled(reportForm, reportSubmitting)
        /\ submitCalls < MaxSubmits
        /\ submitCalls' = submitCalls + 1
        /\ submitLast' = outcome
        /\ reportRows' =
              IF outcome = "inserted"
              THEN Append(reportRows, InsertedRecord(reportForm, user))
              ELSE reportRows
        /\ reportForm' =
              IF outcome = "inserted" THEN EmptyForm
              ELSE IF outcome = "no image" THEN reportForm
              ELSE FormAfterCatch(reportForm)
        /\ reportSubmitting' = FALSE
        /\ UNCHANGED <<reportAnalyses, reportLocating>>
        /\ UNCHANGED outsideSubmit

TypeTyped == \E text \in SubmitTypes : TypeHazardType(text)

DescriptionTyped == \E text \in SubmitDescriptions : TypeDescription(text)

LocationNameTyped == \E text \in SubmitNames : TypeLocationName(text)

ImageSelected == \E file \in SubmitFiles : HandleImageSelect(file)

ReaderLoaded == \E i \in 1..Len(reportAnalyses) : AnalysisReaderLoaded(i)

AnalysisAnswered ==
    \E i \in 1..Len(reportAnalyses), error \in BOOLEAN,
       type \in AnalysisTypes, description \in AnalysisDescriptions :
       AnalysisReturns(i, error, type, description)

LocationAsked == \E supported \in BOOLEAN : GetLocation(supported)

PositionAnswered ==
    \E position \in ReportPositions : ReportPositionFound(position)

GeocodeAnswered == \E throws \in BOOLEAN : GeocodeFetchReturns(throws)

GeocodeRead ==
    \E throws \in BOOLEAN, displayName \in DisplayNames :
       GeocodeJsonReturns(throws, displayName)

SubmitPressed ==
    \E user \in SubmitUsers, uploadError \in BOOLEAN,
       insertError \in BOOLEAN :
       HandleSubmit(user, uploadError, insertError)

SubmitNext ==
    \/ TypeTyped
    \/ DescriptionTyped
    \/ LocationNameTyped
    \/ ImageSelected
    \/ ReaderLoaded
    \/ AnalysisAnswered
    \/ LocationAsked
    \/ PositionAnswered
    \/ ReportPositionFails
    \/ GeocodeAnswered
    \/ GeocodeRead
    \/ SubmitPressed

SpecSubmit == SubmitInit /\ [][SubmitNext]_vars

(* ------------------------------ claims --------------------------------- *)
\* the checks the claim names, on the form
LengthsAndRangesPass(form) ==
    /\ form.hazardType # Undefined
    /\ form.description # Undefined
    /\ form.hazardType.core \in 1..100
    /\ form.description.core \in 10..2000
    /\ form.lat \in -90..90
    /\ form.lng \in -180..180

MAX_IMAGE_LENGTH == 5000000
\* 'data:image/'.length
PREFIX_LENGTH == 11

\* values of imageBase64 after req.json(): the key is missing, null, a
\* string (its length, whether it starts with 'data:image/'), or a number
\* (length holds its value)
ImageValue(kind, length, dataImage) ==
    [kind |-> kind, length |-> length, dataImage |-> dataImage]

\* !imageBase64: undefined, null, the empty string and 0 are falsy
Falsy(value) ==
    \/ value.kind \in {"undefined", "null"}
    \/ value.kind = "string" /\ value.length = 0
    \/ value.kind = "number" /\ value.length = 0

\* imageBase64.length > 5000000 (undefined > 5000000 is false)
TooLong(value) == value.kind = "string" /\ value.length > MAX_IMAGE_LENGTH

\* new Response(JSON.stringify(body), {status, headers})
JsonResponse(status, body) ==
    [status |-> status, body |-> body, contentType |-> "application/json"]

\* mutant: the prefix is checked before the length
Rejection_PrefixFirst(value) ==
    IF Falsy(value) THEN Returned(JsonResponse(400, "error"))
    ELSE IF value.kind # "string" THEN Thrown
    ELSE IF ~value.dataImage THEN Returned(JsonResponse(400, "error"))
    ELSE IF TooLong(value) THEN Returned(JsonResponse(413, "error"))
    ELSE Returned(NoResponse)

\* the three checks of imageBase64, in the order of the code: a response,
\* NoResponse when the value passes, or the TypeError of startsWith on a value
\* that is no string
Rejection(value) ==
    IF Falsy(value) THEN Returned(JsonResponse(400, "error"))
    ELSE IF TooLong(value) THEN Returned(JsonResponse(413, "error"))
    ELSE IF value.kind # "string" THEN Thrown
    ELSE IF ~value.dataImage THEN Returned(JsonResponse(400, "error"))
    ELSE Returned(NoResponse)

\* what the gateway call leads to, after the checks and with the API key:
\* fetch throws, the answer is not ok, its body is no JSON, it has no
\* choices, the reply holds no {...}, the {...} is no JSON, or all is well
GatewayKinds ==
    {"fetch throws", "not ok", "body not json", "no choices", "no braces",
     "braces not json", "analysis"}

AfterGateway(gateway) ==
    IF gateway = "not ok" THEN Returned(JsonResponse(500, "error"))
    ELSE IF gateway = "analysis" THEN Returned(JsonResponse(200, "analysis"))
    ELSE Thrown

\* the try block: the response it returns, or an exception; with the
\* number of calls of the gateway
TryAnalyze(request, world) ==
    IF ~request.bodyParses THEN [result |-> Thrown, calls |-> 0]
    ELSE LET rejection == Rejection(request.imageBase64)
         IN  IF rejection.threw \/ rejection.value # NoResponse
             THEN [result |-> rejection, calls |-> 0]
             ELSE IF ~world.apiKey THEN [result |-> Thrown, calls |-> 0]
             ELSE [result |-> AfterGateway(world.gateway), calls |-> 1]

\* the handler: OPTIONS is answered with the CORS headers; the catch block
\* turns every exception of the try block into a 500 with a JSON body
serve(request, world) ==
    IF request.method = "OPTIONS"
    THEN [response |-> [status |-> 200, body |-> Null,
                        contentType |-> Null],
          calls |-> 0]
    ELSE LET try == TryAnalyze(request, world)
         IN  [response |-> IF try.result.threw
                           THEN JsonResponse(500, "error")
                           ELSE try.result.value,
              calls |-> try.calls]

(* ------------------------------ actions -------------------------------- *)
ImageValues ==
    {ImageValue("undefined", 0, FALSE), ImageValue("null", 0, FALSE),
     ImageValue("number", 0, FALSE), ImageValue("number", 7, FALSE),
     ImageValue("string", 0, FALSE)}
    \cup {ImageValue("string", n, b) :
             n \in {PREFIX_LENGTH, MAX_IMAGE_LENGTH, MAX_IMAGE_LENGTH + 1},
             b \in BOOLEAN}

\* a request arrives
ApiInit ==
    /\ BaseIdle
    /\ FetchIdle
    /\ GeoIdle
    /\ AdminStart
    /\ SessionsIdle
    /\ DistIdle
    /\ ToastIdle
    /\ DisplayIdle
    /\ ReportsIdle
    /\ MapIdle
    /\ FixIdle
    /\ SubmitIdle
    /\ ObjIdle
    /\ apiRequest \in [method : {"OPTIONS", "POST"}, bodyParses : BOOLEAN,
                       imageBase64 : ImageValues]
    /\ apiWorld \in [apiKey : BOOLEAN, gateway : GatewayKinds]
    /\ apiPc = "received"
    /\ apiResponse = NoResponse
    /\ gatewayCalls = 0

\* the handler returns the response of the path it took
Respond ==
    /\ apiResponse' = serve(apiRequest, apiWorld).response
    /\ apiPc' = "done"

\* the handler is called: OPTIONS is answered at once, otherwise
\* req.json() is awaited
HandlerCalled ==
    /\ apiPc = "received"
    /\ IF apiRequest.method = "OPTIONS"
       THEN Respond
       ELSE apiPc' = "json" /\ UNCHANGED apiResponse
    /\ UNCHANGED <<apiRequest, apiWorld, gatewayCalls>>
    /\ UNCHANGED outsideApi

\* req.json() settles: a body that does not parse, a rejected image and a
\* missing API key end the call; otherwise fetch is called and awaited
BodyParsed ==
    /\ apiPc = "json"
    /\ IF TryAnalyze(apiRequest, apiWorld).calls = 0
       THEN Respond /\ UNCHANGED gatewayCalls
       ELSE /\ gatewayCalls' = gatewayCalls + 1
            /\ apiPc' = "fetch"
            /\ UNCHANGED apiResponse
    /\ UNCHANGED <<apiRequest, apiWorld>>
    /\ UNCHANGED outsideApi

\* fetch settles: an exception ends the call; an answer that is not ok
\* has its text awaited, another one its JSON
GatewayAnswered ==
    /\ apiPc = "fetch"
    /\ IF apiWorld.gateway = "fetch throws"
       THEN Respond
       ELSE /\ apiPc' = IF apiWorld.gateway = "not ok" THEN "text"
                                                       ELSE "body"
            /\ UNCHANGED apiResponse
    /\ UNCHANGED <<apiRequest, apiWorld, gatewayCalls>>
    /\ UNCHANGED outsideApi

\* response.text() settles: the error is logged and answered 500
ErrorTextRead ==
    /\ apiPc = "text"
    /\ Respond
    /\ UNCHANGED <<apiRequest, apiWorld, gatewayCalls>>
    /\ UNCHANGED outsideApi

\* response.json() settles: the analysis is taken out of the reply and
\* returned, or an exception is caught
GatewayBodyRead ==
    /\ apiPc = "body"
    /\ Respond
    /\ UNCHANGED <<apiRequest, apiWorld, gatewayCalls>>
    /\ UNCHANGED outsideApi

ApiNext ==
    \/ HandlerCalled
    \/ BodyParsed
    \/ GatewayAnswered
    \/ ErrorTextRead
    \/ GatewayBodyRead

SpecApi == ApiInit /\ [][ApiNext]_vars

(* ------------------------------ claims --------------------------------- *)
\* a POST whose body parsed was answered
Answered ==
    /\ apiResponse # NoResponse
    /\ apiRequest.method = "POST"
    /\ apiRequest.bodyParses

\* C36: missing image data is answered 400, a string of more than
\* 5,000,000 characters 413 (whatever it starts with), a shorter string
\* not starting with 'data:image/' 400, each without a call of the
\* gateway; and every answer other than the analysis is an error with a
\* JSON body: the handler never throws.
C36_RejectsBeforeGateway ==
    LET image == apiRequest.imageBase64
        missing == image.kind \in {"undefined", "null"}
                   \/ (image.kind = "string" /\ image.length = 0)
        long == image.kind = "string" /\ image.length > 5000000
        badPrefix == image.kind = "string" /\ image.length > 0
                     /\ ~image.dataImage
    IN  /\ (Answered /\ missing) =>
              apiResponse.status = 400 /\ gatewayCalls = 0
        /\ (Answered /\ long) =>
              apiResponse.status = 413 /\ gatewayCalls = 0
        /\ (Answered /\ badPrefix /\ ~long) =>
              apiResponse.status = 400 /\ gatewayCalls = 0
        /\ (apiResponse # NoResponse /\ apiRequest.method = "POST"
            /\ apiResponse.status # 200) =>
              /\ apiResponse.status \in {400, 413, 500}
              /\ apiResponse.body = "error"
              /\ apiResponse.contentType = "application/json"

\* a string of 5,000,001 characters that does not start with
\* 'data:image/' was answered 413 without a call of the gateway
C36_Witness ==
    /\ Answered
    /\ apiRequest.imageBase64.kind = "string"
    /\ apiRequest.imageBase64.length = MAX_IMAGE_LENGTH + 1
    /\ ~apiRequest.imageBase64.dataImage
    /\ apiResponse.status = 413
    /\ gatewayCalls = 0
    /\ apiWorld.apiKey

(* ------------ the engine and the objects it is given (5) --------------- *)
\* calls of calculateSafety in progress at one time
MaxScoring == 1

\* rows of hazard_reports in one answer of the select
MaxListed == 1

\* ALL_SAFE_ZONES with Vigan Cathedral, Vigan Sports Complex and Bantay
\* Church in this order, and in the opposite order
ObjCatalogs ==
    {<<SafeZone(1, Coord(175750, 1203870)),
       SafeZone(2, Coord(175780, 1203920)),
       SafeZone(3, Coord(175920, 1203890))>>,
     <<SafeZone(1, Coord(175920, 1203890)),
       SafeZone(2, Coord(175780, 1203920)),
       SafeZone(3, Coord(175750, 1203870))>>}

\* answers of the select of fetchHazardReports: no row, or up to MaxListed
\* pending rows at the centre of Vigan
ObjReportLists ==
    {[i \in 1..n |-> ScoredHazard("pending", VIGAN_CENTER)] :
        n \in 0..MaxListed}

\* payloads of the change feed: payload.new of an INSERT, payload.old and
\* payload.new of an UPDATE
InsertPayloads ==
    {[old |-> OldRecord(Null), new |-> NewRecord(id, "pending", coords)] :
        id \in HazardIds, coords \in HazardCoords}

UpdatePayloads ==
    {[old |-> OldRecord(old),
      new |-> NewRecord(id, "fixed", HazardNearVigan)] :
        id \in HazardIds, old \in {"pending", "fixed"}}

\* mutant: map writes the distances into its receiver and returns it
MapResult_Receiver(receiver, fresh) == receiver

\* Array.prototype.map returns a new array, here under the name of the
\* constant it is assigned to; its receiver is only read
MapResult(receiver, fresh) == fresh

\* receiver.map(zone => ({ ...zone, distance }))
ArrayMap(arrays, receiver, fresh, loc) ==
    [arrays EXCEPT ![MapResult(receiver, fresh)] =
                       zonesWithDistance(arrays[receiver], loc)]

\* receiver.sort(compare): the receiver itself is put in order
ArraySort(arrays, receiver) ==
    [arrays EXCEPT ![receiver] = SortByDistance(arrays[receiver])]

\* receiver.slice(0, end) returns a new array
ArraySlice(arrays, receiver, fresh, end) ==
    [arrays EXCEPT ![fresh] = Slice(arrays[receiver], end)]

\* the useMemo of nearbySafeZones, on the arrays:
\* ALL_SAFE_ZONES.map(..) is zonesWithDistance, and
\* zonesWithDistance.sort(..).slice(0, 5) is returned
RankedArrays(arrays, loc) ==
    IF loc = NoCoord THEN [arrays EXCEPT !["nearbySafeZones"] = <<>>]
    ELSE LET mapped == MapResult("ALL_SAFE_ZONES", "zonesWithDistance")
             made == ArrayMap(arrays, "ALL_SAFE_ZONES",
                              "zonesWithDistance", loc)
         IN  ArraySlice(ArraySort(made, mapped), mapped,
                        "nearbySafeZones", NEAREST_COUNT)

\* Object.assign(target, source): the target itself gets the keys of the
\* source
ObjectAssign(target, source) ==
    [key \in DOMAIN target \cup DOMAIN source |->
        IF key \in DOMAIN source THEN source[key] ELSE target[key]]

\* what a step leaves in objLast
ObjStep(op, payload, outcome) ==
    [op |-> op, payload |-> payload, outcome |-> outcome]

(* ------------------------------ actions -------------------------------- *)
\* MapView as it is mounted, with one of the catalogs
ObjectsInit ==
    /\ BaseIdle
    /\ FetchIdle
    /\ GeoIdle
    /\ AdminStart
    /\ SessionsIdle
    /\ DistIdle
    /\ ToastIdle
    /\ DisplayIdle
    /\ ReportsIdle
    /\ MapIdle
    /\ FixIdle
    /\ SubmitIdle
    /\ ApiIdle
    /\ \E catalog \in ObjCatalogs :
          objArrays = [name \in ArrayNames |->
                          IF name = "ALL_SAFE_ZONES" THEN catalog ELSE <<>>]
    /\ ObjMounted

\* setCurrentLocation(loc) of the location effect, and the render it
\* causes: currentEvacuationRoutes and the routeSafetyScores memo are
\* built anew, nearbySafeZones is evaluated, the hook subscribes; the
\* length did not change, so the score effect does not run
LocationRendered(loc) ==
    /\ objLocation = NoCoord
    /\ objLocation' = loc
    /\ objScores' = [r \in RouteIds |-> 100]
    /\ objArrays' = RankedArrays(objArrays, loc)
    /\ objLast' = ObjStep("location", NoPayload, "none")
    /\ UNCHANGED <<objReports, objLengthDep, objCalls, objProcessed,
                   objPayload>>
    /\ UNCHANGED outsideObjects

\* fetchHazardReports resolves: setHazardReports(data), a new array.  The
\* score effect runs when the length changed, and starts calculateSafety
\* when the location is known.
ReportsStored(data) ==
    LET runs == EffectRuns(objLengthDep, data)
        starts == runs /\ objLocation # NoCoord
    IN  /\ starts => Len(objCalls) < MaxScoring
        /\ objReports' = data
        /\ objLengthDep' = IF runs THEN Len(data) ELSE objLengthDep
        /\ objCalls' = IF starts THEN Append(objCalls, data) ELSE objCalls
        /\ objLast' = ObjStep("load", NoPayload, "none")
        /\ UNCHANGED <<objArrays, objLocation, objScores, objProcessed,
                       objPayload>>
        /\ UNCHANGED outsideObjects

\* call i of calculateSafety got its last route: calculateRouteSafety has
\* scored every route against the hazardReports the call captured, and
\* if (hasChanged) Object.assign(routeSafetyScores, scores)
SafetyAssigned(i, kinds) ==
    /\ i \in 1..Len(objCalls)
    /\ LET scores == ComputedScores(objLocation, objCalls[i], kinds)
           hasChanged == \E key \in RouteIds : objScores[key] # scores[key]
       IN  /\ objScores' = IF hasChanged THEN ObjectAssign(objScores, scores)
                                         ELSE objScores
           /\ objLast' = ObjStep("scored", NoPayload,
                                 IF hasChanged THEN "assigned" ELSE "kept")
    /\ objCalls' = WithoutCall(objCalls, i)
    /\ UNCHANGED <<objArrays, objLocation, objReports, objLengthDep,
                   objProcessed, objPayload>>
    /\ UNCHANGED outsideObjects

\* the INSERT callback of the channel the hook subscribed when the
\* location was known (notifications are left enabled): has, add, the
\* distance and the toast
InsertCallback(payload) ==
    /\ objLocation # NoCoord
    /\ objProcessed' = InsertProcessed(objProcessed, payload.new)
    /\ objPayload' = payload
    /\ objLast' = ObjStep("insert", payload,
                          InsertOutcome(objProcessed, objLocation,
                                        payload.new))
    /\ UNCHANGED <<objArrays, objLocation, objReports, objLengthDep,
                   objCalls, objScores>>
    /\ UNCHANGED outsideObjects

\* the UPDATE callback: the two statuses are compared, the distance is
\* computed and the toast shown
UpdateCallback(payload) ==
    /\ objLocation # NoCoord
    /\ objPayload' = payload
    /\ objLast' = ObjStep("update", payload,
                          UpdateOutcome(objLocation, payload.old,
                                        payload.new))
    /\ UNCHANGED <<objArrays, objLocation, objReports, objLengthDep,
                   objCalls, objScores, objProcessed>>
    /\ UNCHANGED outsideObjects

ZonesRanked == \E loc \in ViewLocations : LocationRendered(loc)

ReportsAnswered ==
    \E data \in ObjReportLists : ReportsStored(data)

RoutesScored ==
    \E i \in 1..Len(objCalls), kind \in FetchRouteKinds :
        SafetyAssigned(i, [r \in RouteIds |-> kind])

CreateProcessed == \E payload \in InsertPayloads : InsertCallback(payload)

UpdateProcessed == \E payload \in UpdatePayloads : UpdateCallback(payload)

ObjectsNext ==
    \/ ZonesRanked
    \/ ReportsAnswered
    \/ RoutesScored
    \/ CreateProcessed
    \/ UpdateProcessed

SpecObjects == ObjectsInit /\ [][ObjectsNext]_vars

(* ------------------------------ claims --------------------------------- *)
\* C24: no step changes the safe-zone catalog, its order included; the
\* hazard list is replaced only when the data source answers, and the
\* list a scoring call captured stays as captured; the records of an
\* event are after its callback as the change feed delivered them; of
\* what the engine keeps, only the set of notified hazards changes, and
\* only in the INSERT callback; the scores object of the caller changes
\* only when the caller builds or assigns it.
C24_InputsReadOnly ==
    [][ /\ objArrays'["ALL_SAFE_ZONES"] = objArrays["ALL_SAFE_ZONES"]
        /\ objLast'.op # "load" => objReports' = objReports
        /\ objLast'.op \notin {"load", "scored"} => objCalls' = objCalls
        /\ objLast'.op = "scored" =>
              \E i \in 1..Len(objCalls) : objCalls' = WithoutCall(objCalls, i)
        /\ objLast'.op \in {"insert", "update"} =>
              objPayload' = objLast'.payload
        /\ objProcessed' # objProcessed =>
              /\ objLast'.op = "insert"
              /\ objProcessed' = objProcessed \cup {objPayload'.new.id}
        /\ objScores' # objScores =>
              \/ objLast'.op = "location"
              \/ objLast'.op = "scored" /\ objLast'.outcome = "assigned"
      ]_vars

\* every operation has acted: the ranking put another zone than the first
\* of the catalog in front, a create event was recorded, a route was
\* scored below 100 against a list that is still the one loaded, and the
\* callback of an update event has just shown its toast; the catalog
\* still starts with its first zone
C24_Witness ==
    /\ objLast.op = "update"
    /\ objLast.outcome = "shown"
    /\ objPayload = objLast.payload
    /\ objProcessed # {}
    /\ Len(objReports) > 0
    /\ \E r \in RouteIds : objScores[r] < 100
    /\ Len(objArrays["nearbySafeZones"]) = 3
    /\ objArrays["nearbySafeZones"][1].name # 1
    /\ objArrays["zonesWithDistance"][1].name # 1
    /\ objArrays["ALL_SAFE_ZONES"][1].name = 1
====
